---- MODULE Spec2Model ----
(***************************************************************************)
(* A model of the NudgeScan client-side scanning protocol: the EC-OPRF     *)
(* (blind / evaluate / unblind), the Chaum-Pedersen proof of correct       *)
(* evaluation, the HMAC response envelope, the signed database manifest    *)
(* and the chat page that wires them together.                             *)
(*                                                                         *)
(* The P-256 group is replaced by the cyclic group of prime order          *)
(* CURVE_ORDER; a point is written as its discrete logarithm to the base   *)
(* G (0 is the point at infinity).  Hex encodings are integers; -1 stands  *)
(* for a malformed string and -2 for a missing (undefined) value.          *)
(***************************************************************************)
EXTENDS Integers, Sequences, FiniteSets, TLC

VARIABLES
  \* ---- the OPRF pipeline (blindPHash -> evaluateBlindedPoint -> verify / unblind)
  oPc,        \* position in the pipeline
  hashSeed,      \* which hash function SHA-256 is (the random oracle's choice)
  serverKey,       \* SERVER_OPRF_KEY
  oPhash,     \* the pHash handed to blindPHash
  oR,         \* blindPHash's blinding scalar r
  oBlinded,   \* blindPHash().blindedHex
  oUsedKey,   \* the scalar the server multiplied by (serverKey when honest)
  oResp,      \* the server's { evaluatedPoint, proof }
  oVerdict,   \* verifyOPRFProof's result
  oToken,     \* unblindEvaluatedPoint's result
  \* ---- the environment of the client
  now,        \* Date.now() of the client
  subtle,     \* whether crypto.subtle is available
  \* ---- the response envelope (addMAC -> network -> verifyMAC / verifyMACClient)
  mPc,        \* position of the envelope
  mSent,      \* the envelope addMAC returned
  mRecv,      \* the envelope as it is presented to the verifiers
  mChanged,   \* the field changed in transit ("none" when untouched)
  mServer,    \* verifyMAC's result
  mClient,    \* verifyMACClient's result
  \* ---- the files the site serves and the bundle the page was built with
  servedDb,     \* bytes of /eHashes/evaluated_phashes.json
  manifest,     \* /eHashes/database_signature.json
  bundledDb,    \* storedKeyedHashes, imported into imageHashScanner.ts
  commitFile,   \* publicKey of /server_key_commitment.json
  \* ---- the chat page
  mountPc,      \* the mount effect: "pending" until verifyDatabase has run
  dbResult,     \* what verifyDatabaseOnClient returned
  dbVerified,   \* useState(false)
  securityStatus,
  scanning,     \* useState(false)
  pc,           \* the phase of handleFileUpload
  imgHash,      \* computePHashClient's result
  blind,        \* blindPHash's { blindedHex, r }
  request,      \* the form posted to /api/scan/image
  macResponse,  \* the body of the response to /api/scan/image
  scanData,     \* macVerification.data
  proofVerdict, \* what verifyOPRFProof returned in this scan
  unblinded,    \* what unblindEvaluatedPoint returned or threw
  matchResult,  \* what localMatch returned
  matchedDb,    \* the entries localMatch went through
  outcome,      \* the message that replaced "Scanning..."
  failure,      \* why the scan failed
  phases,       \* the steps the current (or last) scan has run, and how each ended
  \* ---- verifyDatabaseIntegrity on its own
  dPc,
  dSigned,      \* the bytes generateDatabaseSignature was given
  dManifest,    \* its result
  dAge,         \* now - timestamp, as days and milliseconds
  dContent,     \* the bytes presented for verification
  dChange,      \* how they differ from the signed ones
  dResult,      \* verifyDatabaseIntegrity's result
  \* ---- POST /api/scan/image on its own
  rPc,
  rRequest,     \* the blindedPoint field of the form
  rResponse,    \* the status and the body it answers with
  \* ---- localMatch on its own
  lPc,
  lToken,       \* the unblinded token
  lDb,          \* storedKeyedHashes
  lThreshold,
  lResult,      \* what localMatch returned
  \* ---- resultEncryption.ts on its own
  ePc,
  eKey,         \* keyManager.key
  eSlot,        \* sessionStorage's nudgescan_session_key
  eData,        \* the value given to encryptResult
  eBlob,        \* the EncryptedResult, as it is handed to decryptResult
  eChanged,     \* what was changed in it
  eOut,         \* what decryptResult returned or threw
  \* ---- the stored results (resultEncryption.ts, localStorage)
  localStore,   \* localStorage: the entries in the order of localStorage.key(i)
  sOp,          \* the last call made on the store
  keysToRemove, \* clearAllResults' list
  \* ---- textScanner.ts on its own
  tPc,
  tInput,       \* inputText
  tResult,      \* what scanText returned
  \* ---- pHashClient.ts on its own
  hPc,
  hBlock,       \* the top-left block of dctMatrix
  hResult,      \* what computePHashClient returned
  \* ---- concurrent callers
  srvMemo,      \* oprfServer.ts: _publicKeyCommitment
  srvReqs,      \* the requests the image route is handling, each with its locals
  kmCalls,      \* the calls into resultEncryption.ts in flight, each with its locals
  kmCleared,    \* the keys that clearKey() has dropped so far
  rpFor,        \* the request the server made the envelope for
  rpLog         \* the verifications of that envelope so far

oprfVars == <<oPc, hashSeed, serverKey, oPhash, oR, oBlinded, oUsedKey, oResp, oVerdict, oToken>>

envVars == <<now, subtle>>

macVars == <<mPc, mSent, mRecv, mChanged, mServer, mClient>>

siteVars == <<servedDb, manifest, bundledDb, commitFile>>

pageVars == <<mountPc, dbResult, dbVerified, securityStatus, scanning, pc, imgHash,
              blind, request, macResponse, scanData, proofVerdict, unblinded, matchResult,
              matchedDb, outcome, failure, phases>>

dbVars == <<dPc, dSigned, dManifest, dAge, dContent, dChange, dResult>>

\* The state of the parts that are examined on their own.
routeVars == <<rPc, rRequest, rResponse>>

matchVars == <<lPc, lToken, lDb, lThreshold, lResult>>

encVars == <<ePc, eKey, eSlot, eData, eBlob, eChanged, eOut>>

storeVars == <<localStore, sOp, keysToRemove>>

textVars == <<tPc, tInput, tResult>>

hashVars == <<hPc, hBlock, hResult>>

concVars == <<srvMemo, srvReqs, kmCalls, kmCleared, rpFor, rpLog>>

moreVars == <<storeVars, textVars, hashVars, concVars>>

labVars == <<dbVars, routeVars, matchVars, encVars, moreVars>>

vars == <<oprfVars, envVars, macVars, siteVars, pageVars, labVars>>

(***************************************************************************)
(* Bounds of the model.                                                    *)
(***************************************************************************)
MaxPHash == 2
MaxNonce == 2
MaxTick == 2
MaxEntries == 2
MaxChunks == 3

PHashes == 0..MaxPHash

(***************************************************************************)
(* Curve primitives (@noble/curves p256, scaled down).                     *)
(***************************************************************************)
CURVE_ORDER == 7

Malformed == -1
Undefined == -2

Scalars == 1..(CURVE_ORDER - 1)
Points == 0..(CURVE_ORDER - 1)
ZERO == 0
G == 1

\* Point.multiply(scalar) accepts only 1 <= scalar < n and throws otherwise.
ValidScalar(s) == s \in Scalars

Multiply(P, s) == (P * s) % CURVE_ORDER

Add(P, Q) == (P + Q) % CURVE_ORDER

\* invert(r, n): the modular inverse, which throws for r = 0 (mod n).
invert(r, n) == CHOOSE x \in 1..(n - 1) : (x * r) % n = 1

\* Compressed SEC1 encoding: a parity prefix (02 / 03) and the x-coordinate,
\* which P and -P share.  The x-coordinates of different points are far apart
\* bit by bit, as those of a real curve are.  The point at infinity has no
\* encoding (toHex throws).
XCoord(P) ==
  LET a == IF 2 * P < CURVE_ORDER THEN P ELSE CURVE_ORDER - P
  IN  CASE a = 1 -> 4096 - 1
        [] a = 2 -> (4096 - 1) * 4096
        [] OTHER -> 4096 * 4096 - 1

PrefixUnit == 4096 * 4096

PointToHex(P) == (IF 2 * P < CURVE_ORDER THEN 2 ELSE 3) * PrefixUnit + XCoord(P)

\* Point.fromHex: throws unless the string is the encoding of a point # ZERO.
IsPointHex(h) == \E P \in Scalars : PointToHex(P) = h

PointFromHex(h) == CHOOSE P \in Scalars : PointToHex(P) = h

PointHexes == {PointToHex(P) : P \in Scalars}

\* p256_hasher.hashToCurve(bytes): a point # ZERO fixed by the pHash.
hashToCurve(phash) == (phash % (CURVE_ORDER - 1)) + 1

\* JavaScript truthiness of an optional string argument.
Truthy(h) == h # Undefined

(***************************************************************************)
(* zkProof.ts                                                              *)
(***************************************************************************)
\* sha256(G || K || P' || Q || R1 || R2) mod CURVE_ORDER.  SHA-256 is one fixed
\* function that nobody can steer: seed picks which one, so that every
\* challenge value occurs for every transcript.
ChallengeHash(seed, Ghex, Khex, Bhex, Qhex, R1hex, R2hex) ==
  (seed + Ghex + 2 * Khex + 3 * Bhex + 4 * Qhex + 5 * R1hex + 6 * R2hex) % CURVE_ORDER

NoProof == <<>>

\* A proof that also carries its nonce (with it, k = (s - r) / c).
ProofRecordWithNonce(c, s, R1hex, R2hex, r, secretKey) ==
  [challenge |-> c, response |-> s, commitment |-> <<R1hex, R2hex>>, nonce |-> r]

\* return { challenge, response, commitment }
ProofRecord(c, s, R1hex, R2hex, r, secretKey) ==
  [challenge |-> c, response |-> s, commitment |-> <<R1hex, R2hex>>]

generateOPRFProof(seed, secretKey, blindedPointHex, evaluatedPointHex, publicKeyHex, r) ==
  LET blindedPoint == PointFromHex(blindedPointHex)
      R1 == Multiply(G, r)
      R2 == Multiply(blindedPoint, r)
      c == ChallengeHash(seed, PointToHex(G), publicKeyHex, blindedPointHex,
                         evaluatedPointHex, PointToHex(R1), PointToHex(R2))
      s == (r + c * secretKey) % CURVE_ORDER
  IN  <<ProofRecord(c, s, PointToHex(R1), PointToHex(R2), r, secretKey)>>

Invalid(reason) == [valid |-> FALSE, reason |-> reason]
Valid == [valid |-> TRUE, reason |-> "none"]

\* A verifier that does not check the second equation.
SecondEquationSkipped(s, c, blindedPoint, evaluatedPoint, R2) == TRUE

\* The second equation, s*P' = R2 + c*Eval.
SecondEquation(s, c, blindedPoint, evaluatedPoint, R2) ==
  Multiply(blindedPoint, s) = Add(R2, Multiply(evaluatedPoint, c))

\* A verifier that does not check the first equation.
FirstEquationSkipped(s, c, publicKey, R1) == TRUE

\* The first equation, s*G = R1 + c*PK.
FirstEquation(s, c, publicKey, R1) ==
  Multiply(G, s) = Add(R1, Multiply(publicKey, c))

\* A verifier without the try/catch: the error leaves the function.
ProofErrorEscapes == [thrown |-> TRUE]

\* catch (error): return { valid: false, reason: 'Proof verification error: ...' }
ProofErrorCaught == Invalid("error")

\* The proof is a one-element sequence (NoProof when the field is missing).
\* Every throw inside the try block ends in the catch: "Proof verification error".
verifyOPRFProof(seed, proof, blindedPointHex, evaluatedPointHex, publicKeyHex) ==
  IF \/ ~IsPointHex(blindedPointHex)
     \/ ~IsPointHex(evaluatedPointHex)
     \/ ~IsPointHex(publicKeyHex)
     \/ proof = NoProof
  THEN ProofErrorCaught
  ELSE
  LET p == proof[1]
      c == p.challenge
      s == p.response
  IN
  IF \/ c < 0 \/ s < 0
     \/ Len(p.commitment) < 2
     \/ ~IsPointHex(p.commitment[1])
     \/ ~IsPointHex(p.commitment[2])
  THEN ProofErrorCaught
  ELSE
  LET blindedPoint == PointFromHex(blindedPointHex)
      evaluatedPoint == PointFromHex(evaluatedPointHex)
      publicKey == PointFromHex(publicKeyHex)
      R1 == PointFromHex(p.commitment[1])
      R2 == PointFromHex(p.commitment[2])
      cPrime == ChallengeHash(seed, PointToHex(G), PointToHex(publicKey),
                              PointToHex(blindedPoint), PointToHex(evaluatedPoint),
                              PointToHex(R1), PointToHex(R2))
  IN
  IF c # cPrime THEN Invalid("challenge")
  ELSE IF ~ValidScalar(s) THEN ProofErrorCaught        \* G.multiply(s) throws
  ELSE IF ~ValidScalar(c) THEN ProofErrorCaught        \* publicKey.multiply(c) throws
  ELSE IF ~FirstEquation(s, c, publicKey, R1) THEN Invalid("EqG")
  ELSE IF ~SecondEquation(s, c, blindedPoint, evaluatedPoint, R2) THEN Invalid("EqP")
  ELSE Valid

(***************************************************************************)
(* oprfServer.ts                                                           *)
(***************************************************************************)
\* getPublicKeyCommitment(): p256.getPublicKey(k), hex encoded.
getPublicKeyCommitment(k) == PointToHex(Multiply(G, k))

\* evaluateBlindedPoint(blindedHex) for a well-formed blindedHex, with the
\* multiplier and the proof nonce as parameters.
evaluateBlindedPoint(seed, k, blindedHex, nonce) ==
  LET evaluatedHex == PointToHex(Multiply(PointFromHex(blindedHex), k))
  IN  [evaluatedPoint |-> evaluatedHex,
       proof |-> generateOPRFProof(seed, k, blindedHex, evaluatedHex,
                                   getPublicKeyCommitment(k), nonce)]

\* A server that multiplies by kPrime and proves with kPrime, while the
\* challenge is computed over the published commitment K = k*G.
CheatingEvaluate(seed, k, kPrime, blindedHex, nonce) ==
  LET evaluatedHex == PointToHex(Multiply(PointFromHex(blindedHex), kPrime))
  IN  [evaluatedPoint |-> evaluatedHex,
       proof |-> generateOPRFProof(seed, kPrime, blindedHex, evaluatedHex,
                                   getPublicKeyCommitment(k), nonce)]

\* getPublicKeyCommitment() with its memo: the value returned, which is also
\* what _publicKeyCommitment holds afterwards.
getPublicKeyCommitmentMemo(memo, k) ==
  IF ~Truthy(memo) THEN getPublicKeyCommitment(k) ELSE memo

\* evaluateBlindedPoint(blindedHex) with the commitment the memo gives.
evaluateBlindedPointMemo(seed, k, memo, blindedHex, nonce) ==
  LET evaluatedHex == PointToHex(Multiply(PointFromHex(blindedHex), k))
  IN  [evaluatedPoint |-> evaluatedHex,
       proof |-> generateOPRFProof(seed, k, blindedHex, evaluatedHex,
                                   getPublicKeyCommitmentMemo(memo, k), nonce)]

(***************************************************************************)
(* oprfClient.ts                                                           *)
(***************************************************************************)
blindPHash(phash, r) ==
  [blindedHex |-> PointToHex(Multiply(hashToCurve(phash), r)), r |-> r]

Thrown(why) == [thrown |-> TRUE, why |-> why, token |-> Undefined]
Returned(token) == [thrown |-> FALSE, why |-> "none", token |-> token]

\* Unblinding with r itself instead of its inverse.
UnblindScalarNoInverse(r) == r

\* The scalar the evaluated point is multiplied by.
UnblindScalar(r) == invert(r, CURVE_ORDER)

\* The condition under which the proof is checked at all.
ProofChecked(proof, blindedHex, publicKey) ==
  proof # NoProof /\ Truthy(blindedHex) /\ Truthy(publicKey)

unblindEvaluatedPoint(seed, evaluatedHex, r, blindedHex, proof, publicKey) ==
  IF ~IsPointHex(evaluatedHex) THEN Thrown("badPoint")
  ELSE IF /\ ProofChecked(proof, blindedHex, publicKey)
          /\ ~verifyOPRFProof(seed, proof, blindedHex, evaluatedHex, publicKey).valid
       THEN Thrown("proofInvalid")
  ELSE IF r % CURVE_ORDER = 0 THEN Thrown("invert")
  ELSE Returned(PointToHex(Multiply(PointFromHex(evaluatedHex), UnblindScalar(r))))

(***************************************************************************)
(* generateHashes.ts: the token stored in the database for a pHash.        *)
(***************************************************************************)
generateHashesToken(k, phash) == PointToHex(Multiply(hashToCurve(phash), k))

(***************************************************************************)
(* Time.  Date.now() is a count of milliseconds; it is kept as days and    *)
(* milliseconds of the day, so that 30 days in milliseconds is exact.      *)
(***************************************************************************)
DayMs == 24 * 60 * 60 * 1000

Time(day, ms) == [day |-> day, ms |-> ms]

\* A timestamp that is missing or not a number: every comparison is false.
NaN == [day |-> -1, ms |-> -1]

\* t + d milliseconds, for |d| < DayMs.
Shift(t, d) ==
  LET m == t.ms + d
  IN  IF m < 0 THEN Time(t.day - 1, m + DayMs)
      ELSE IF m >= DayMs THEN Time(t.day + 1, m - DayMs)
      ELSE Time(t.day, m)

\* a - b > days * DayMs + ms, for 0 <= ms < DayMs.
Exceeds(a, b, days, ms) ==
  /\ a # NaN /\ b # NaN
  /\ LET dm == a.ms - b.ms
         nd == IF dm < 0 THEN a.day - b.day - 1 ELSE a.day - b.day
         nm == IF dm < 0 THEN dm + DayMs ELSE dm
     IN  nd > days \/ (nd = days /\ nm > ms)

(***************************************************************************)
(* JSON values.  An object is its fields and the order they were inserted  *)
(* in; JSON.stringify writes the fields in that order.                     *)
(***************************************************************************)
UndefinedData ==
  [defined |-> FALSE, keys |-> <<>>, evaluatedPoint |-> Undefined, proof |-> NoProof,
   status |-> "undefined"]

\* { evaluatedPoint, proof } with the fields in the order of keys.
ImageData(keys, evaluatedPoint, proof) ==
  [defined |-> TRUE, keys |-> keys, evaluatedPoint |-> evaluatedPoint, proof |-> proof,
   status |-> "undefined"]

\* { status } of a text scan (the detail follows the status).
TextData(status) ==
  [defined |-> TRUE, keys |-> <<"status">>, evaluatedPoint |-> Undefined,
   proof |-> NoProof, status |-> status]

FieldString(data, key) ==
  IF key = "evaluatedPoint" THEN <<key, data.evaluatedPoint>>
  ELSE IF key = "proof" THEN <<key, data.proof>>
  ELSE <<key, data.status>>

JSONstringify(data) ==
  IF ~data.defined THEN << <<"undefined", Undefined>> >>
  ELSE [i \in 1..Len(data.keys) |-> FieldString(data, data.keys[i])]

(***************************************************************************)
(* messageAuth.ts                                                          *)
(***************************************************************************)
MAC_SECRET == "nudgescan-mac-secret-2025-change-in-production"

\* HMAC-SHA256 as an ideal keyed hash: equal only for equal key and message.
generateHMAC(data, secret) == [hmac |-> secret, over |-> data]

NoMac == [hmac |-> "undefined", over |-> <<>>]

\* `${dataString}:${nonce}:${timestamp}`
MessageToSign(data, nonce, timestamp) == <<JSONstringify(data), nonce, timestamp>>

addMAC(data, secret, nonce, timestamp) ==
  [data |-> data,
   mac |-> generateHMAC(MessageToSign(data, nonce, timestamp), secret),
   nonce |-> nonce,
   timestamp |-> timestamp]

MaxAge == 5 * 60 * 1000
FutureSlack == 60000

\* A verifier that takes an envelope of any age.
TooOldNever(clock, timestamp, maxAge) == FALSE

\* age > maxAge, with age = now - response.timestamp
TooOld(clock, timestamp, maxAge) == Exceeds(clock, timestamp, 0, maxAge)

\* A future check that also rejects the boundary itself.
InFutureInclusive(clock, timestamp) == Exceeds(timestamp, clock, 0, FutureSlack - 1)

\* age < -60000
InFuture(clock, timestamp) == Exceeds(timestamp, clock, 0, FutureSlack)

MacInvalid(reason) == [valid |-> FALSE, reason |-> reason, data |-> UndefinedData]
MacValid(data) == [valid |-> TRUE, reason |-> "none", data |-> data]

ExpectedMAC(response, secret) ==
  generateHMAC(MessageToSign(response.data, response.nonce, response.timestamp), secret)

verifyMAC(response, secret, maxAge, clock) ==
  IF TooOld(clock, response.timestamp, maxAge) THEN MacInvalid("old")
  ELSE IF InFuture(clock, response.timestamp) THEN MacInvalid("future")
  ELSE IF ExpectedMAC(response, secret) # response.mac THEN MacInvalid("mac")
  ELSE MacValid(response.data)

verifyMACClient(response, secret, maxAge, clock, hasSubtle) ==
  IF TooOld(clock, response.timestamp, maxAge) THEN MacInvalid("old")
  ELSE IF InFuture(clock, response.timestamp) THEN MacInvalid("future")
  ELSE IF ~hasSubtle THEN MacValid(response.data)
  ELSE IF ExpectedMAC(response, secret) # response.mac THEN MacInvalid("mac")
  ELSE MacValid(response.data)

(***************************************************************************)
(* databaseIntegrity.ts                                                    *)
(***************************************************************************)
\* SHA-256 as an ideal hash: equal only for equal content.
sha256(data) == [sha256 |-> data]

hmacSha256(key, data) == [hmac |-> key, over |-> data]

SIGNING_KEY == "client-database-verification-key-2025"

MaxDbAgeDays == 30

generateDatabaseSignature(databaseContent, version, signingKey, clock) ==
  LET hash == sha256(databaseContent)
  IN  [hash |-> hash,
       signature |-> hmacSha256(signingKey, <<hash, clock, version>>),
       timestamp |-> clock,
       version |-> version]

(***************************************************************************)
(* scripts/generateSignature.js: the same steps with Node's crypto, whose  *)
(* createHash and createHmac take the string as UTF-8 and write lowercase  *)
(* hex, as the TextEncoder and the hex loop of databaseIntegrity.ts do.    *)
(***************************************************************************)
nodeSha256(data) == [sha256 |-> data]

nodeHmacSha256(key, data) == [hmac |-> key, over |-> data]

\* A script that leaves the version out of the signed string.
generateDatabaseSignatureScriptUnversioned(databaseContent, version, signingKey, clock) ==
  LET hash == nodeSha256(databaseContent)
  IN  [hash |-> hash,
       signature |-> nodeHmacSha256(signingKey, <<hash, clock>>),
       timestamp |-> clock,
       version |-> version]

\* generateDatabaseSignature of the script.
generateDatabaseSignatureScript(databaseContent, version, signingKey, clock) ==
  LET hash == nodeSha256(databaseContent)
  IN  [hash |-> hash,
       signature |-> nodeHmacSha256(signingKey, <<hash, clock, version>>),
       timestamp |-> clock,
       version |-> version]

DbInvalid(reason) == [valid |-> FALSE, reason |-> reason, data |-> <<>>]
DbValid(data) == [valid |-> TRUE, reason |-> "none", data |-> data]

\* An expiry check that also rejects the age of 30 days itself.
SignatureExpiredInclusive(signature, clock) ==
  Exceeds(clock, signature.timestamp, MaxDbAgeDays - 1, DayMs - 1)

\* signatureAge > maxAge, with maxAge = 30 days
SignatureExpired(signature, clock) == Exceeds(clock, signature.timestamp, MaxDbAgeDays, 0)

\* A verification that does not compare the hash.
HashMismatchNever(databaseContent, signature) == FALSE

\* computedHash !== signature.hash
HashMismatch(databaseContent, signature) == sha256(databaseContent) # signature.hash

\* Without crypto.subtle the digest throws, and the catch answers invalid.
verifyDatabaseIntegrity(databaseContent, signature, signingKey, clock, hasSubtle) ==
  IF SignatureExpired(signature, clock) THEN DbInvalid("expired")
  ELSE IF ~hasSubtle THEN DbInvalid("error")
  ELSE IF HashMismatch(databaseContent, signature) THEN DbInvalid("hash")
  ELSE IF hmacSha256(signingKey,
                     <<signature.hash, signature.timestamp, signature.version>>)
            # signature.signature
       THEN DbInvalid("signature")
  ELSE DbValid(<<>>)

\* The database file is the list of its entries, written one after the other.
JSONparse(databaseContent) ==
  [i \in 1..Len(databaseContent) |->
     [file |-> databaseContent[i][1], phash |-> databaseContent[i][2]]]

verifyDatabaseOnClient(fetchOk, databaseContent, signature, clock, hasSubtle) ==
  IF ~fetchOk THEN DbInvalid("fetch")
  ELSE LET result == verifyDatabaseIntegrity(databaseContent, signature, SIGNING_KEY,
                                             clock, hasSubtle)
       IN  IF result.valid THEN DbValid(JSONparse(databaseContent)) ELSE result

(***************************************************************************)
(* imageHashScanner.ts                                                     *)
(***************************************************************************)
BitAt(x, i) == (x \div (2 ^ i)) % 2

\* A distance that leaves the prefix byte out.
hammingDistanceNoPrefix(hash1, hash2) ==
  Cardinality({i \in 0..23 : BitAt(hash1, i) # BitAt(hash2, i)})

\* XOR the two numbers and count the bits that are set.  A token is the hex
\* that toHex writes (fixed length, lower case), so it stands for one number.
hammingDistance(hash1, hash2) ==
  Cardinality({i \in 0..27 : BitAt(hash1, i) # BitAt(hash2, i)})

DefaultThreshold == 10

NoMatch == [matched |-> FALSE, hammingDistance |-> Undefined]

\* A comparison that leaves the threshold itself out.
WithinThresholdStrict(dist, threshold) == dist < threshold

\* if (dist <= threshold)
WithinThreshold(dist, threshold) == dist <= threshold

\* The loop of localMatch from entry i on.
RECURSIVE MatchFrom(_, _, _, _)
MatchFrom(unblindedToken, storedKeyedHashes, threshold, i) ==
  IF i > Len(storedKeyedHashes) THEN NoMatch
  ELSE LET dist == hammingDistance(unblindedToken, storedKeyedHashes[i].phash)
       IN  IF WithinThreshold(dist, threshold)
           THEN [matched |-> TRUE, hammingDistance |-> dist]
           ELSE MatchFrom(unblindedToken, storedKeyedHashes, threshold, i + 1)

localMatch(unblindedToken, storedKeyedHashes, threshold) ==
  MatchFrom(unblindedToken, storedKeyedHashes, threshold, 1)

(***************************************************************************)
(* POST /api/scan/image and the key commitment file                        *)
(***************************************************************************)
\* The encoding "00" of the point at infinity, which Point.fromHex refuses.
InfinityHex == 0

NoEvaluation == [evaluatedPoint |-> Undefined, proof |-> NoProof]

\* NextResponse.json(body, { status }): the body has the fields named in keys;
\* a field it does not have reads as undefined.
RouteResponse(status, keys, evaluated, error) ==
  [status |-> status,
   body |-> [keys |-> keys, evaluatedPoint |-> evaluated, error |-> error,
             data |-> UndefinedData, mac |-> NoMac, nonce |-> Undefined,
             timestamp |-> NaN]]

POST_image(seed, k, blindedPoint, nonce) ==
  IF ~Truthy(blindedPoint)
  THEN RouteResponse(400, <<"error">>, NoEvaluation, "No hash provided")
  ELSE IF ~IsPointHex(blindedPoint)     \* Point.fromHex throws, the catch answers
  THEN RouteResponse(500, <<"error">>, NoEvaluation, "Server error during scan")
  ELSE RouteResponse(200, <<"evaluatedPoint">>,
                     evaluateBlindedPoint(seed, k, blindedPoint, nonce), "none")

\* const macResponse: MACResponse = await response.json()
AsMACResponse(body) ==
  [data |-> body.data, mac |-> body.mac, nonce |-> body.nonce,
   timestamp |-> body.timestamp]

\* generateKeyCommitment.js: the content of server_key_commitment.json
KeyCommitmentFile(k, clock) ==
  [publicKey |-> getPublicKeyCommitment(k), timestamp |-> clock, version |-> "1.0.0"]

(***************************************************************************)
(* resultEncryption.ts                                                     *)
(***************************************************************************)
\* No key: keyManager.key = null, sessionStorage.getItem(...) = null.
NoKey == 0

\* A slot content that importKey refuses.
CorruptKey == -1

\* A getOrCreateKey that keeps a new key in memory only.
getOrCreateKeyInMemory(key, slot, generated) ==
  IF key # NoKey THEN [key |-> key, slot |-> slot]
  ELSE IF slot # NoKey /\ slot # CorruptKey THEN [key |-> slot, slot |-> slot]
  ELSE [key |-> generated, slot |-> slot]

\* getOrCreateKey(): the key in memory, else the one in the session slot if
\* it imports, else a newly generated one, which is written to the slot.
getOrCreateKey(key, slot, generated) ==
  IF key # NoKey THEN [key |-> key, slot |-> slot]
  ELSE IF slot # NoKey /\ slot # CorruptKey THEN [key |-> slot, slot |-> slot]
  ELSE [key |-> generated, slot |-> generated]

\* The value handleFileUpload encrypts.
ScanRecord(filename, result, timestamp) ==
  [type |-> "image", filename |-> filename, result |-> result, timestamp |-> timestamp]

\* JSON.stringify(data): the fields in order (a field that is undefined is
\* left out), and the number of bytes of the text.
StringifyResult(data) ==
  [text |-> << <<"type", data.type>>, <<"filename", data.filename>>,
              <<"result",
                IF data.result.matched
                THEN << <<"matched", TRUE>>,
                        <<"hammingDistance", data.result.hammingDistance>> >>
                ELSE << <<"matched", FALSE>> >> >>,
              <<"timestamp", data.timestamp>> >>,
   length |-> 66 + Len(data.filename)
                 + (IF ~data.result.matched THEN 17
                    ELSE IF data.result.hammingDistance < 10 THEN 82 ELSE 83)]

\* JSON.parse(dataString)
ParseResult(dataString) ==
  LET result == dataString.text[3][2]
  IN  [type |-> dataString.text[1][2],
       filename |-> dataString.text[2][2],
       result |-> [matched |-> result[1][2],
                   hammingDistance |-> IF Len(result) > 1 THEN result[2][2]
                                       ELSE Undefined],
       timestamp |-> dataString.text[4][2]]

\* AES-GCM: the ciphertext and its tag open only under the key and the iv
\* they were made with, and only untouched.
TagLength == 16

AesGcmEncrypt(key, iv, plain) ==
  [aead |-> key, iv |-> iv, plain |-> plain, touched |-> FALSE,
   length |-> plain.length + TagLength]

AesGcmOpens(key, iv, ciphertext) ==
  ciphertext.aead = key /\ ciphertext.iv = iv /\ ~ciphertext.touched

\* The iv: 12 random bytes.
IvLength == 12

IvBytes(iv) == [iv |-> iv, length |-> IvLength]

\* btoa: base64 text of bytes.  The last character of a text whose byte
\* count is not a multiple of 3 has bits that stand for nothing; btoa writes
\* them as 0.
btoa(bytes) == [bytes |-> bytes, slack |-> 0, bad |-> FALSE]

\* Whether the base64 text of these bytes has such bits.
HasSlack(bytes) == bytes.length % 3 # 0

\* atob throws for a character outside the alphabet,
AtobThrows(text) == text.bad

\* and decodes the rest, whatever the bits that stand for nothing are.
atob(text) == text.bytes

encryptResult(data, key, iv, clock) ==
  [ciphertext |-> btoa(AesGcmEncrypt(key, iv, StringifyResult(data))),
   iv |-> btoa(IvBytes(iv)),
   timestamp |-> clock]

DecryptThrown(why) == [thrown |-> TRUE, why |-> why, data |-> Undefined]
DecryptReturned(data) == [thrown |-> FALSE, why |-> "none", data |-> data]

decryptResult(encrypted, key) ==
  IF AtobThrows(encrypted.ciphertext) \/ AtobThrows(encrypted.iv)
  THEN DecryptThrown("InvalidCharacterError")
  ELSE LET ciphertext == atob(encrypted.ciphertext)
           iv == atob(encrypted.iv)
       IN  IF ~AesGcmOpens(key, iv.iv, ciphertext)
           THEN DecryptThrown("OperationError")
           ELSE DecryptReturned(ParseResult(ciphertext.plain))

\* Storage (localStorage): entries [key, value] in the order of key(i).
\* A key is the sequence of its characters (an id counts as one).
NoItem == [kind |-> "null", fields |-> <<>>]

getItem(store, key) ==
  IF \E i \in 1..Len(store) : store[i].key = key
  THEN store[CHOOSE i \in 1..Len(store) : store[i].key = key].value
  ELSE NoItem

setItem(store, key, value) ==
  IF \E i \in 1..Len(store) : store[i].key = key
  THEN [i \in 1..Len(store) |->
          IF store[i].key = key THEN [key |-> key, value |-> value] ELSE store[i]]
  ELSE Append(store, [key |-> key, value |-> value])

removeItem(store, key) == SelectSeq(store, LAMBDA e : e.key # key)

RESULT_PREFIX == <<"r", "e", "s", "u", "l", "t", "_">>

\* `result_${id}`
ResultKey(id) == RESULT_PREFIX \o <<id>>

\* A prefix test that also takes a key differing in the prefix's last
\* character.
startsWithButLast(key, prefix) ==
  /\ Len(key) >= Len(prefix)
  /\ SubSeq(key, 1, Len(prefix) - 1) = SubSeq(prefix, 1, Len(prefix) - 1)

\* key.startsWith(prefix)
startsWith(key, prefix) ==
  /\ Len(key) >= Len(prefix)
  /\ SubSeq(key, 1, Len(prefix)) = prefix

\* JSON.stringify(encrypted)
StringifyBlob(encrypted) ==
  [kind |-> "object",
   fields |-> << <<"ciphertext", encrypted.ciphertext>>, <<"iv", encrypted.iv>>,
                 <<"timestamp", encrypted.timestamp>> >>]

\* Stored texts that are not an EncryptedResult: the empty string, a text
\* that is not JSON, the JSON of a string.
EmptyText == [kind |-> "empty", fields |-> <<>>]
NotJson == [kind |-> "garbage", fields |-> <<>>]
StringText == [kind |-> "string", fields |-> <<>>]

\* atob(undefined): "undefined" is not base64.
NotBase64 == [bytes |-> <<>>, slack |-> 0, bad |-> TRUE]

\* JSON.parse(stored) read as an EncryptedResult: a field the value does not
\* have is undefined.
ParseBlob(stored) ==
  IF stored.kind = "object"
  THEN [ciphertext |-> stored.fields[1][2], iv |-> stored.fields[2][2],
        timestamp |-> stored.fields[3][2]]
  ELSE [ciphertext |-> NotBase64, iv |-> NotBase64, timestamp |-> NaN]

\* storeEncryptedResult(id, data), after getOrCreateKey gave key.
storeEncryptedResult(store, id, data, key, iv, clock) ==
  setItem(store, ResultKey(id), StringifyBlob(encryptResult(data, key, iv, clock)))

\* Whether retrieveEncryptedResult gets as far as decryptResult.
RetrieveFinds(store, id) ==
  getItem(store, ResultKey(id)).kind \notin {"null", "empty", "garbage"}

\* retrieveEncryptedResult(id): what it returns or throws.  It leaves the
\* store as it is.
retrieveEncryptedResult(store, id, key) ==
  LET stored == getItem(store, ResultKey(id))
  IN  IF stored.kind \in {"null", "empty"} THEN DecryptThrown("Result not found")
      ELSE IF stored.kind = "garbage" THEN DecryptThrown("SyntaxError")
      ELSE decryptResult(ParseBlob(stored), key)

\* clearAllResults: the first loop, from index i on.
RECURSIVE CollectKeys(_, _)
CollectKeys(store, i) ==
  IF i > Len(store) THEN <<>>
  ELSE (IF store[i].key # <<>> /\ startsWith(store[i].key, RESULT_PREFIX)
        THEN <<store[i].key>> ELSE <<>>) \o CollectKeys(store, i + 1)

\* keysToRemove.forEach(key => localStorage.removeItem(key))
RECURSIVE RemoveKeys(_, _)
RemoveKeys(store, keys) ==
  IF keys = <<>> THEN store
  ELSE RemoveKeys(removeItem(store, Head(keys)), Tail(keys))

\* keyManager.clearKey()
clearKey == [key |-> NoKey, slot |-> NoKey]

(***************************************************************************)
(* textScanner.ts and config.ts.  A text is the sequence of its            *)
(* characters.                                                             *)
(***************************************************************************)
LowerCase ==
  <<"a", "b", "c", "d", "e", "f", "g", "h", "i", "j", "k", "l", "m",
    "n", "o", "p", "q", "r", "s", "t", "u", "v", "w", "x", "y", "z">>

UpperCase ==
  <<"A", "B", "C", "D", "E", "F", "G", "H", "I", "J", "K", "L", "M",
    "N", "O", "P", "Q", "R", "S", "T", "U", "V", "W", "X", "Y", "Z">>

Digits == {"0", "1", "2", "3", "4", "5", "6", "7", "8", "9"}

\* \w
IsWordChar(c) ==
  \/ \E i \in 1..26 : c = LowerCase[i] \/ c = UpperCase[i]
  \/ c \in Digits \/ c = "_"

\* \s, as far as String.prototype.trim goes
IsWhiteSpace(c) == c \in {" ", "\n", "\t"}

\* The case folding of the "i" flag: a letter and its other case are one.
Canonicalize(c) ==
  IF \E i \in 1..26 : c = LowerCase[i]
  THEN UpperCase[CHOOSE i \in 1..26 : c = LowerCase[i]]
  ELSE c

\* inputText.trim()
RECURSIVE trim(_)
trim(text) ==
  IF text = <<>> THEN text
  ELSE IF IsWhiteSpace(Head(text)) THEN trim(Tail(text))
  ELSE IF IsWhiteSpace(text[Len(text)]) THEN trim(SubSeq(text, 1, Len(text) - 1))
  ELSE text

\* The characters escapeRegex puts a backslash before.
RegexSpecials ==
  {".", "*", "+", "?", "^", "$", "{", "}", "(", ")", "|", "[", "]", "\\"}

\* escapeRegex(keyword): one atom per character.
escapeRegex(keyword) ==
  [i \in 1..Len(keyword) |->
     IF keyword[i] \in RegexSpecials THEN <<"\\", keyword[i]>> ELSE <<keyword[i]>>]

\* The character an atom matches.
AtomChar(atom) == atom[Len(atom)]

\* compileRegex(keywords, useWordBoundary)
compileRegex(keywords, useWordBoundary) ==
  [k \in 1..Len(keywords) |->
     [atoms |-> escapeRegex(keywords[k]), wordBoundary |-> useWordBoundary]]

\* A \b that holds everywhere.
BoundaryAtAnywhere(text, p) == TRUE

\* \b at position p: exactly one of the characters before and at p is a word
\* character (the ends of the text count as none).
BoundaryAt(text, p) ==
  (p > 1 /\ IsWordChar(text[p - 1])) # (p <= Len(text) /\ IsWordChar(text[p]))

\* The regex matches the text from position p.
MatchesAt(regex, text, p) ==
  /\ p + Len(regex.atoms) - 1 <= Len(text)
  /\ \A i \in 1..Len(regex.atoms) :
       Canonicalize(text[p + i - 1]) = Canonicalize(AtomChar(regex.atoms[i]))
  /\ regex.wordBoundary =>
       BoundaryAt(text, p) /\ BoundaryAt(text, p + Len(regex.atoms))

NoExec == [found |-> FALSE, match |-> <<>>]

\* regex.exec(text): the leftmost match.
exec(regex, text) ==
  LET at == {p \in 1..Len(text) : MatchesAt(regex, text, p)}
  IN  IF at = {} THEN NoExec
      ELSE LET p == CHOOSE q \in at : \A r \in at : q <= r
           IN  [found |-> TRUE, match |-> SubSeq(text, p, p + Len(regex.atoms) - 1)]

\* for (const regex of regexes): the first regex that matches, from index i.
RECURSIVE FirstExec(_, _, _)
FirstExec(regexes, text, i) ==
  IF i > Len(regexes) THEN NoExec
  ELSE IF exec(regexes[i], text).found THEN exec(regexes[i], text)
  ELSE FirstExec(regexes, text, i + 1)

\* The keywords of config.ts.
KW_KILL == <<"k", "i", "l", "l">>
KW_BOMB == <<"b", "o", "m", "b">>
KW_EXPLODE == <<"e", "x", "p", "l", "o", "d", "e">>
KW_CHILD_ABUSE == <<"c", "h", "i", "l", "d", " ", "a", "b", "u", "s", "e">>
KW_CREDIT_CARD == <<"c", "r", "e", "d", "i", "t", " ", "c", "a", "r", "d">>
KW_HACK == <<"h", "a", "c", "k">>
KW_LEAK == <<"l", "e", "a", "k">>
KW_DDOS == <<"d", "d", "o", "s">>

\* config.ts
scannerConfig ==
  [blockedKeywords |-> <<KW_KILL, KW_BOMB, KW_EXPLODE, KW_CHILD_ABUSE, KW_CREDIT_CARD>>,
   warningKeywords |-> <<KW_HACK, KW_LEAK, KW_DDOS>>,
   useWordBoundary |-> TRUE]

ScanResult(severity, matchedKeyword) ==
  [severity |-> severity, matchedKeyword |-> matchedKeyword]

\* scanText(inputText, config), inputText a string.
scanText(inputText, config) ==
  LET text == trim(inputText)
      blocked == FirstExec(compileRegex(config.blockedKeywords, config.useWordBoundary),
                           text, 1)
      warning == FirstExec(compileRegex(config.warningKeywords, config.useWordBoundary),
                           text, 1)
  IN  IF text = <<>> THEN ScanResult("safe", <<>>)
      ELSE IF blocked.found THEN ScanResult("blocked", blocked.match)
      ELSE IF warning.found THEN ScanResult("warning", warning.match)
      ELSE ScanResult("safe", <<>>)

(***************************************************************************)
(* pHashClient.ts, from the DCT matrix on.  The block is scaled down from  *)
(* 8x8 (63 bits, 16 hex digits) to BlockSide x BlockSide; a matrix is a    *)
(* function of the row and the column, both from 0.                        *)
(***************************************************************************)
BlockSide == 4

HashHexLength == 4

\* The loops over i and j that skip (0, 0): the k-th value pushed.
dctValues(dctMatrix) ==
  [k \in 1..(BlockSide * BlockSide - 1) |-> dctMatrix[k \div BlockSide][k % BlockSide]]

\* [...arr].sort((a, b) => a - b)
RECURSIVE InsertSorted(_, _)
InsertSorted(x, sorted) ==
  IF sorted = <<>> THEN <<x>>
  ELSE IF x <= Head(sorted) THEN <<x>> \o sorted
  ELSE <<Head(sorted)>> \o InsertSorted(x, Tail(sorted))

RECURSIVE SortAscending(_)
SortAscending(arr) ==
  IF arr = <<>> THEN <<>> ELSE InsertSorted(Head(arr), SortAscending(Tail(arr)))

\* Twice the median (the mean of two integers need not be one): the middle
\* element of an odd count, the mean of the two middle ones of an even count.
TwiceMedian(arr) ==
  LET sorted == SortAscending(arr)
      mid == Len(sorted) \div 2
  IN  IF Len(sorted) % 2 # 0 THEN 2 * sorted[mid + 1]
      ELSE sorted[mid] + sorted[mid + 1]

\* A comparison that also sets the bit of a value equal to the median.
AboveMedianOrEqual(val, twiceMed) == 2 * val >= twiceMed

\* val > med
AboveMedian(val, twiceMed) == 2 * val > twiceMed

\* binaryHash: one character per value.
BinaryHash(values) ==
  [k \in 1..Len(values) |->
     IF AboveMedian(values[k], TwiceMedian(values)) THEN "1" ELSE "0"]

\* BigInt("0b" + binaryHash)
RECURSIVE BigIntOfBinary(_)
BigIntOfBinary(bits) ==
  IF bits = <<>> THEN 0
  ELSE 2 * BigIntOfBinary(SubSeq(bits, 1, Len(bits) - 1))
         + (IF bits[Len(bits)] = "1" THEN 1 ELSE 0)

HexDigits ==
  <<"0", "1", "2", "3", "4", "5", "6", "7", "8", "9", "a", "b", "c", "d", "e", "f">>

\* n.toString(16)
RECURSIVE toString16(_)
toString16(n) ==
  IF n < 16 THEN <<HexDigits[n + 1]>>
  ELSE toString16(n \div 16) \o <<HexDigits[(n % 16) + 1]>>

\* text.padStart(length, "0")
RECURSIVE padStart(_, _)
padStart(text, length) ==
  IF Len(text) >= length THEN text ELSE padStart(<<"0">> \o text, length)

\* computePHashClient, from dctMatrix to hashHex.
computePHashClient(dctMatrix) ==
  padStart(toString16(BigIntOfBinary(BinaryHash(dctValues(dctMatrix)))), HashHexLength)

NoEnvelope == [data |-> UndefinedData, mac |-> NoMac, nonce |-> Undefined, timestamp |-> NaN]
NoMacVerdict == [valid |-> FALSE, reason |-> "unset", data |-> UndefinedData]

(***************************************************************************)
(* The OPRF pipeline as a state machine.                                   *)
(***************************************************************************)
NoResp == [evaluatedPoint |-> Undefined, proof |-> NoProof]
NoVerdict == [valid |-> FALSE, reason |-> "unset"]
NoToken == [thrown |-> FALSE, why |-> "unset", token |-> Undefined]

\* The unused parts of the state in a specification of another part.
IdleOPRF ==
  /\ oPc = "off" /\ hashSeed = 0 /\ serverKey = 1 /\ oPhash = 0 /\ oR = 1
  /\ oBlinded = Undefined /\ oUsedKey = 0 /\ oResp = NoResp
  /\ oVerdict = NoVerdict /\ oToken = NoToken

IdleMAC ==
  /\ mPc = "off" /\ mSent = NoEnvelope /\ mRecv = NoEnvelope /\ mChanged = "none"
  /\ mServer = NoMacVerdict /\ mClient = NoMacVerdict

IdleEnv == now = Time(0, 0) /\ subtle = TRUE

NoManifest == generateDatabaseSignature(<<>>, "none", "none", NaN)
NoDbResult == [valid |-> FALSE, reason |-> "unset", data |-> <<>>]
NoBlind == [blindedHex |-> Undefined, r |-> 0]
NoRequest == [keys |-> <<>>, fields |-> <<>>]
NoMatchYet == [matched |-> FALSE, hammingDistance |-> Malformed]

NoAge == [days |-> 0, ms |-> 0]

IdleDb ==
  /\ dPc = "off" /\ dSigned = <<>> /\ dManifest = NoManifest /\ dAge = NoAge
  /\ dContent = <<>> /\ dChange = "none" /\ dResult = NoDbResult

NoRouteResponse == RouteResponse(0, <<>>, NoEvaluation, "none")

IdleRoute == rPc = "off" /\ rRequest = Undefined /\ rResponse = NoRouteResponse

IdleMatch ==
  /\ lPc = "off" /\ lToken = Undefined /\ lDb = <<>> /\ lThreshold = 0
  /\ lResult = NoMatchYet

NoBlob == [ciphertext |-> btoa(<<>>), iv |-> btoa(<<>>), timestamp |-> NaN]
NoDecrypt == [thrown |-> FALSE, why |-> "unset", data |-> Undefined]

IdleEnc ==
  /\ ePc = "off" /\ eKey = NoKey /\ eSlot = NoKey /\ eData = Undefined
  /\ eBlob = NoBlob /\ eChanged = "none" /\ eOut = NoDecrypt

NoCall == [op |-> "none", id |-> ""]

IdleStore == localStore = <<>> /\ sOp = NoCall /\ keysToRemove = <<>>

NoScanResult == [severity |-> "unset", matchedKeyword |-> <<>>]

IdleText == tPc = "off" /\ tInput = <<>> /\ tResult = NoScanResult

IdleHash == hPc = "off" /\ hBlock = <<>> /\ hResult = <<>>

IdleConc ==
  /\ srvMemo = Undefined /\ srvReqs = <<>> /\ kmCalls = <<>> /\ kmCleared = {}
  /\ rpFor = "" /\ rpLog = <<>>

IdleMore == IdleStore /\ IdleText /\ IdleHash /\ IdleConc

IdleLab == IdleDb /\ IdleRoute /\ IdleMatch /\ IdleEnc /\ IdleMore

IdleSite ==
  /\ servedDb = <<>> /\ manifest = NoManifest /\ bundledDb = <<>> /\ commitFile = Undefined

\* The page's state at a scan's start.
ScanCleared ==
  /\ imgHash = Undefined /\ blind = NoBlind /\ request = NoRequest
  /\ macResponse = NoEnvelope
  /\ scanData = UndefinedData /\ proofVerdict = NoVerdict /\ unblinded = NoToken
  /\ matchResult = NoMatchYet /\ matchedDb = <<>> /\ outcome = "none" /\ failure = "none"

IdlePage ==
  /\ mountPc = "off" /\ dbResult = NoDbResult /\ dbVerified = FALSE
  /\ securityStatus = "Initializing" /\ scanning = FALSE /\ pc = "IDLE"
  /\ ScanCleared /\ phases = <<>>

InitOPRF ==
  /\ oPc = "start"
  /\ hashSeed \in 0..(CURVE_ORDER - 1)
  /\ serverKey \in Scalars
  /\ oPhash \in PHashes
  /\ oR \in Scalars
  /\ oBlinded = Undefined
  /\ oUsedKey = 0
  /\ oResp = NoResp
  /\ oVerdict = NoVerdict
  /\ oToken = NoToken
  /\ IdleEnv
  /\ IdleMAC
  /\ IdleSite
  /\ IdlePage
  /\ IdleLab

OBlind ==
  /\ oPc = "start"
  /\ oBlinded' = blindPHash(oPhash, oR).blindedHex
  /\ oPc' = "blinded"
  /\ UNCHANGED <<hashSeed, serverKey, oPhash, oR, oUsedKey, oResp, oVerdict, oToken>>
  /\ UNCHANGED <<envVars, macVars, siteVars, pageVars, labVars>>

\* The server evaluates with its key and proves it.
OEvaluate ==
  /\ oPc = "blinded"
  /\ \E nonce \in Scalars :
       oResp' = evaluateBlindedPoint(hashSeed, serverKey, oBlinded, nonce)
  /\ oUsedKey' = serverKey
  /\ oPc' = "evaluated"
  /\ UNCHANGED <<hashSeed, serverKey, oPhash, oR, oBlinded, oVerdict, oToken>>
  /\ UNCHANGED <<envVars, macVars, siteVars, pageVars, labVars>>

\* The server evaluates with another scalar.
OCheat ==
  /\ oPc = "blinded"
  /\ \E kPrime \in Scalars \ {serverKey}, nonce \in Scalars :
       /\ oResp' = CheatingEvaluate(hashSeed, serverKey, kPrime, oBlinded, nonce)
       /\ oUsedKey' = kPrime
  /\ oPc' = "evaluated"
  /\ UNCHANGED <<hashSeed, serverKey, oPhash, oR, oBlinded, oVerdict, oToken>>
  /\ UNCHANGED <<envVars, macVars, siteVars, pageVars, labVars>>

OVerify ==
  /\ oPc = "evaluated"
  /\ oVerdict' = verifyOPRFProof(hashSeed, oResp.proof, oBlinded, oResp.evaluatedPoint,
                                 getPublicKeyCommitment(serverKey))
  /\ oPc' = "verified"
  /\ UNCHANGED <<hashSeed, serverKey, oPhash, oR, oBlinded, oUsedKey, oResp, oToken>>
  /\ UNCHANGED <<envVars, macVars, siteVars, pageVars, labVars>>

\* unblindEvaluatedPoint(evaluatedPoint, r), the proof arguments left out.
OUnblind ==
  /\ oPc = "verified"
  /\ oToken' = unblindEvaluatedPoint(hashSeed, oResp.evaluatedPoint, oR,
                                     Undefined, NoProof, Undefined)
  /\ oPc' = "unblinded"
  /\ UNCHANGED <<hashSeed, serverKey, oPhash, oR, oBlinded, oUsedKey, oResp, oVerdict>>
  /\ UNCHANGED <<envVars, macVars, siteVars, pageVars, labVars>>

NextOPRF == OBlind \/ OEvaluate \/ OCheat \/ OVerify \/ OUnblind

SpecOPRF == InitOPRF /\ [][NextOPRF]_vars

(***************************************************************************)
(* The envelope as a state machine: the server wraps a payload, the        *)
(* network delivers it (changed in one field or not), both verifiers run.  *)
(***************************************************************************)
Nonces == 1..MaxNonce

MacPayloads ==
  {ImageData(<<"evaluatedPoint", "proof">>, PointToHex(G), NoProof),
   ImageData(<<"proof", "evaluatedPoint">>, PointToHex(G), NoProof),
   ImageData(<<"evaluatedPoint">>, PointToHex(G), NoProof),
   TextData("safe"), TextData("blocked")}

\* The client's clock when it verifies: around a change of day.
MacClocks == {Time(1, 0), Time(1, 60000), Time(1, 12 * 60 * 60 * 1000)}

\* timestamp - now of the envelopes presented: around both limits.
MacOffsets == {0 - MaxAge - 1, 0 - MaxAge, 1 - MaxAge, 0,
               FutureSlack - 1, FutureSlack, FutureSlack + 1}


InitMAC ==
  /\ IdleOPRF
  /\ now \in MacClocks
  /\ subtle \in BOOLEAN
  /\ mPc = "idle"
  /\ mSent = NoEnvelope /\ mRecv = NoEnvelope /\ mChanged = "none"
  /\ mServer = NoMacVerdict /\ mClient = NoMacVerdict
  /\ IdleSite
  /\ IdlePage
  /\ IdleLab

\* The server wraps a payload; its timestamp is the server's Date.now().
MAdd ==
  /\ mPc = "idle"
  /\ \E data \in MacPayloads, nonce \in Nonces, d \in MacOffsets :
       mSent' = addMAC(data, MAC_SECRET, nonce, Shift(now, d))
  /\ mPc' = "sent"
  /\ UNCHANGED <<mRecv, mChanged, mServer, mClient>>
  /\ UNCHANGED <<oprfVars, envVars, siteVars, pageVars, labVars>>

MDeliver ==
  /\ mPc = "sent"
  /\ mRecv' = mSent
  /\ mPc' = "received"
  /\ UNCHANGED <<mSent, mChanged, mServer, mClient>>
  /\ UNCHANGED <<oprfVars, envVars, siteVars, pageVars, labVars>>

\* The macs someone without the secret can put in: none, one made with another
\* key, or the mac of another envelope of the server.
OtherMacs(e) ==
  {NoMac,
   generateHMAC(MessageToSign(e.data, e.nonce, e.timestamp), "attacker"),
   generateHMAC(MessageToSign(TextData("warning"), e.nonce, e.timestamp), MAC_SECRET)}

MTamperData ==
  /\ mPc = "sent"
  /\ \E data \in (MacPayloads \cup {UndefinedData}) \ {mSent.data} :
       mRecv' = [mSent EXCEPT !.data = data]
  /\ mChanged' = "data"
  /\ mPc' = "received"
  /\ UNCHANGED <<mSent, mServer, mClient>>
  /\ UNCHANGED <<oprfVars, envVars, siteVars, pageVars, labVars>>

MTamperNonce ==
  /\ mPc = "sent"
  /\ \E nonce \in (Nonces \cup {Undefined}) \ {mSent.nonce} :
       mRecv' = [mSent EXCEPT !.nonce = nonce]
  /\ mChanged' = "nonce"
  /\ mPc' = "received"
  /\ UNCHANGED <<mSent, mServer, mClient>>
  /\ UNCHANGED <<oprfVars, envVars, siteVars, pageVars, labVars>>

MTamperTimestamp ==
  /\ mPc = "sent"
  /\ \E t \in ({Shift(now, d) : d \in MacOffsets} \cup {NaN}) \ {mSent.timestamp} :
       mRecv' = [mSent EXCEPT !.timestamp = t]
  /\ mChanged' = "timestamp"
  /\ mPc' = "received"
  /\ UNCHANGED <<mSent, mServer, mClient>>
  /\ UNCHANGED <<oprfVars, envVars, siteVars, pageVars, labVars>>

MTamperMac ==
  /\ mPc = "sent"
  /\ \E mac \in OtherMacs(mSent) \ {mSent.mac} :
       mRecv' = [mSent EXCEPT !.mac = mac]
  /\ mChanged' = "mac"
  /\ mPc' = "received"
  /\ UNCHANGED <<mSent, mServer, mClient>>
  /\ UNCHANGED <<oprfVars, envVars, siteVars, pageVars, labVars>>

MVerifyServer ==
  /\ mPc = "received"
  /\ mServer' = verifyMAC(mRecv, MAC_SECRET, MaxAge, now)
  /\ mPc' = "serverDone"
  /\ UNCHANGED <<mSent, mRecv, mChanged, mClient>>
  /\ UNCHANGED <<oprfVars, envVars, siteVars, pageVars, labVars>>

MVerifyClient ==
  /\ mPc = "serverDone"
  /\ mClient' = verifyMACClient(mRecv, MAC_SECRET, MaxAge, now, subtle)
  /\ mPc' = "done"
  /\ UNCHANGED <<mSent, mRecv, mChanged, mServer>>
  /\ UNCHANGED <<oprfVars, envVars, siteVars, pageVars, labVars>>

NextMAC ==
  \/ MAdd \/ MDeliver
  \/ MTamperData \/ MTamperNonce \/ MTamperTimestamp \/ MTamperMac
  \/ MVerifyServer \/ MVerifyClient

SpecMAC == InitMAC /\ [][NextMAC]_vars

(***************************************************************************)
(* One envelope of the server presented to the client again and again, as  *)
(* the response to the request it was made for or to another one.          *)
(***************************************************************************)
MaxReplays == 3

\* The texts the client asks about.
ReplayRequests == {"hello", "secret"}

\* A verifier with a record of the nonces it accepted.
SeenBeforeRecorded(log, asked, nonce) ==
  \E i \in 1..Len(log) : log[i].verdict.valid /\ log[i].nonce = nonce

\* The nonces verifyMACClient has seen: it keeps none, and the envelope
\* carries nothing of the request.
SeenBefore(log, asked, nonce) == FALSE

InitReplay ==
  /\ IdleOPRF
  /\ now = Time(1, 0)
  /\ subtle \in BOOLEAN
  /\ mPc = "idle"
  /\ mSent = NoEnvelope /\ mRecv = NoEnvelope /\ mChanged = "none"
  /\ mServer = NoMacVerdict /\ mClient = NoMacVerdict
  /\ IdleSite /\ IdlePage
  /\ IdleDb /\ IdleRoute /\ IdleMatch /\ IdleEnc /\ IdleStore /\ IdleText /\ IdleHash
  /\ srvMemo = Undefined /\ srvReqs = <<>> /\ kmCalls = <<>> /\ kmCleared = {}
  /\ rpFor = "" /\ rpLog = <<>>

ReplayFrame ==
  UNCHANGED <<oprfVars, subtle, mChanged, mServer, siteVars, pageVars, dbVars, routeVars,
              matchVars, encVars, storeVars, textVars, hashVars, srvMemo, srvReqs,
              kmCalls, kmCleared>>

\* The server answers a request: addMAC(result) with its Date.now().
RAdd ==
  /\ mPc = "idle"
  /\ \E asked \in ReplayRequests, status \in {"safe", "blocked"}, nonce \in Nonces :
       /\ mSent' = addMAC(TextData(status), MAC_SECRET, nonce, now)
       /\ rpFor' = asked
  /\ mPc' = "sent"
  /\ UNCHANGED <<now, mRecv, mClient, rpLog>>
  /\ ReplayFrame

\* Time passes on the client.
RTick ==
  /\ mPc = "sent"
  /\ ~TooOld(now, mSent.timestamp, MaxAge)
  /\ now' = Shift(now, MaxAge \div 2)
  /\ UNCHANGED <<mPc, mSent, mRecv, mClient, rpFor, rpLog>>
  /\ ReplayFrame

\* The envelope arrives as the response to a request of the client, and
\* verifyMACClient runs on it.
RPresent ==
  /\ mPc = "sent"
  /\ Len(rpLog) < MaxReplays
  /\ \E asked \in ReplayRequests :
       LET verdict == IF SeenBefore(rpLog, asked, mSent.nonce)
                      THEN MacInvalid("replay")
                      ELSE verifyMACClient(mSent, MAC_SECRET, MaxAge, now, subtle)
       IN  /\ mRecv' = mSent
           /\ mClient' = verdict
           /\ rpLog' = Append(rpLog, [request |-> asked, at |-> now,
                                      nonce |-> mSent.nonce, verdict |-> verdict])
  /\ UNCHANGED <<now, mPc, mSent, rpFor>>
  /\ ReplayFrame

NextReplay == RAdd \/ RTick \/ RPresent

SpecReplay == InitReplay /\ [][NextReplay]_vars

\* The keys crypto.subtle.generateKey can give.
KeyIds == 1..MaxNonce

\* crypto.subtle.generateKey gives a key that no stored blob was made with.
FreshKeys ==
  LET used == {eSlot} \cup
              {ParseBlob(localStore[i].value).ciphertext.bytes.aead :
                 i \in {j \in 1..Len(localStore) : localStore[j].value.kind = "object"}}
      free == KeyIds \ used
  IN  IF eKey # NoKey \/ (eSlot # NoKey /\ eSlot # CorruptKey) THEN {NoKey}
      ELSE {k \in free : \A other \in free : k <= other}

(***************************************************************************)
(* The chat page as a state machine: the mount effect verifies the         *)
(* database once, and each upload runs handleFileUpload from one await to  *)
(* the next, against a server and a network that answer as they like.      *)
(***************************************************************************)
SERVER_OPRF_KEY == 3

\* evaluated_phashes.json as generateHashes writes it for a list of pHashes.
DatabaseFile(k, phashes) ==
  [i \in 1..Len(phashes) |-> <<i, generateHashesToken(k, phashes[i])>>]

\* The session starts on day 31; the manifest was signed 30 days less 1 ms
\* before, or 31 days before, or over another file, or with another key.
SessionStart == Time(31, 0)

Manifests(db, otherDb) ==
  {generateDatabaseSignature(db, "1.0.0", SIGNING_KEY, Time(1, 1)),
   generateDatabaseSignature(db, "1.0.0", SIGNING_KEY, Time(0, 0)),
   generateDatabaseSignature(otherDb, "1.0.0", SIGNING_KEY, Time(1, 1)),
   generateDatabaseSignature(db, "1.0.0", "attacker", Time(1, 1))}

Init ==
  /\ oPc = "off" /\ hashSeed \in 0..(CURVE_ORDER - 1) /\ serverKey = SERVER_OPRF_KEY /\ oPhash = 0 /\ oR = 1
  /\ oBlinded = Undefined /\ oUsedKey = 0 /\ oResp = NoResp
  /\ oVerdict = NoVerdict /\ oToken = NoToken
  /\ IdleMAC
  /\ now = SessionStart
  /\ subtle \in BOOLEAN
  /\ servedDb = DatabaseFile(serverKey, <<0>>)
  /\ manifest \in Manifests(servedDb, DatabaseFile(serverKey, <<1>>))
  /\ bundledDb \in {JSONparse(servedDb), JSONparse(DatabaseFile(serverKey, <<1>>))}
  /\ commitFile \in {getPublicKeyCommitment(serverKey), Undefined}
  /\ mountPc = "pending" /\ dbResult = NoDbResult /\ dbVerified = FALSE
  /\ securityStatus = "Initializing" /\ scanning = FALSE /\ pc = "IDLE"
  /\ ScanCleared /\ phases = <<>>
  /\ IdleLab

\* Date.now() moves on.
Tick ==
  /\ now.ms < MaxTick
  /\ now' = Shift(now, 1)
  /\ UNCHANGED <<oprfVars, subtle, macVars, siteVars, pageVars, labVars>>

\* The mount effect: verifyDatabase().
VerifyDatabase ==
  /\ mountPc = "pending"
  /\ \E fetchOk \in BOOLEAN :
       LET result == verifyDatabaseOnClient(fetchOk, servedDb, manifest, now, subtle)
       IN  /\ dbResult' = result
           /\ dbVerified' = result.valid
           /\ securityStatus' = IF result.valid THEN "Database verified"
                                ELSE "Database verification failed"
  /\ mountPc' = "done"
  /\ UNCHANGED <<scanning, pc, imgHash, blind, request, macResponse, scanData,
                 proofVerdict, unblinded, matchResult, matchedDb, outcome, failure,
                 phases>>
  /\ UNCHANGED <<oprfVars, envVars, macVars, siteVars, labVars>>

\* A step of the scan that ran to its end, and one that threw.
Ran(name) == [name |-> name, ok |-> TRUE]
Threw(name) == [name |-> name, ok |-> FALSE]

\* A handler without its finally block: the flag stays as it is.
ScanFailsNoFinally(why) ==
  /\ outcome' = "failed" /\ failure' = why
  /\ scanning' = scanning /\ pc' = "IDLE"
  /\ imgHash' = Undefined /\ blind' = NoBlind /\ request' = NoRequest
  /\ macResponse' = NoEnvelope
  /\ scanData' = UndefinedData /\ proofVerdict' = NoVerdict /\ unblinded' = NoToken
  /\ matchResult' = NoMatchYet /\ matchedDb' = <<>>

\* The catch and finally blocks: "Scan failed", the scan's locals are gone.
ScanFails(why) ==
  /\ outcome' = "failed" /\ failure' = why
  /\ scanning' = FALSE /\ pc' = "IDLE"
  /\ imgHash' = Undefined /\ blind' = NoBlind /\ request' = NoRequest
  /\ macResponse' = NoEnvelope
  /\ scanData' = UndefinedData /\ proofVerdict' = NoVerdict /\ unblinded' = NoToken
  /\ matchResult' = NoMatchYet /\ matchedDb' = <<>>

\* A handler that starts the scan whatever the mount effect found.
DbCheckSkipped(verified) == TRUE

\* if (!dbVerified) throw
DbCheckPasses(verified) == verified

\* A file is chosen (the input is disabled while scanning).
StartScan ==
  /\ ~scanning
  /\ IF DbCheckPasses(dbVerified)
     THEN /\ scanning' = TRUE /\ pc' = "HASHING"
          /\ outcome' = "none" /\ failure' = "none"
          /\ UNCHANGED <<imgHash, blind, request, macResponse, scanData, proofVerdict,
                         unblinded, matchResult, matchedDb>>
     ELSE ScanFails("dbUnverified")
  /\ phases' = <<>>
  /\ UNCHANGED <<mountPc, dbResult, dbVerified, securityStatus>>
  /\ UNCHANGED <<oprfVars, envVars, macVars, siteVars, labVars>>

\* A form that also carries the pHash.
FormDataWithHash(blindedHex, phash, r) ==
  [keys |-> <<"blindedPoint", "imgHash">>, fields |-> <<blindedHex, phash>>]

\* new FormData(); formData.append("blindedPoint", blindedHex)
FormData(blindedHex, phash, r) ==
  [keys |-> <<"blindedPoint">>, fields |-> <<blindedHex>>]

\* formData.get(key)
FormGet(form, key) ==
  IF \E i \in 1..Len(form.keys) : form.keys[i] = key
  THEN form.fields[CHOOSE i \in 1..Len(form.keys) : form.keys[i] = key]
  ELSE Undefined

\* computePHashClient resolves; blindPHash draws r and the request goes out.
HashDone ==
  /\ pc = "HASHING"
  /\ \E p \in PHashes, r \in Scalars :
       /\ imgHash' = p
       /\ blind' = blindPHash(p, r)
       /\ request' = FormData(blindPHash(p, r).blindedHex, p, r)
  /\ phases' = phases \o <<Ran("pHash"), Ran("blind"), Ran("request")>>
  /\ pc' = "AWAIT_SERVER"
  /\ UNCHANGED <<mountPc, dbResult, dbVerified, securityStatus, scanning, macResponse,
                 scanData, proofVerdict, unblinded, matchResult, matchedDb, outcome,
                 failure>>
  /\ UNCHANGED <<oprfVars, envVars, macVars, siteVars, labVars>>

\* computePHashClient rejects (the file is not an image).
HashFails ==
  /\ pc = "HASHING"
  /\ ScanFails("hash")
  /\ phases' = Append(phases, Threw("pHash"))
  /\ UNCHANGED <<mountPc, dbResult, dbVerified, securityStatus>>
  /\ UNCHANGED <<oprfVars, envVars, macVars, siteVars, labVars>>

\* The multipliers of a server that does not use its key.
CheatKeys(k) == {(k % (CURVE_ORDER - 1)) + 1, ((k + 1) % (CURVE_ORDER - 1)) + 1}

\* What a server can answer for a blinded point: the evaluation with its key
\* and the proof, an evaluation with another multiplier and that one's proof, or
\* an evaluation with no proof.
Evaluations(seed, k, blindedHex) ==
  {evaluateBlindedPoint(seed, k, blindedHex, n) : n \in Nonces}
    \cup {CheatingEvaluate(seed, k, kPrime, blindedHex, n) :
            kPrime \in CheatKeys(k), n \in Nonces}
    \cup {[evaluatedPoint |-> PointToHex(Multiply(PointFromHex(blindedHex), m)),
           proof |-> NoProof] : m \in {k} \cup CheatKeys(k)}

ImagePayload(e) ==
  IF e.proof = NoProof THEN ImageData(<<"evaluatedPoint">>, e.evaluatedPoint, NoProof)
  ELSE ImageData(<<"evaluatedPoint", "proof">>, e.evaluatedPoint, e.proof)

\* The bodies that can arrive: an envelope of the server (stamped now, too
\* long ago or too far ahead), an envelope made without the server's secret,
\* or the evaluation with no envelope around it.
ScanResponses(seed, k, blindedHex, clock) ==
  {addMAC(ImagePayload(e), secret, 1, t) :
     e \in Evaluations(seed, k, blindedHex),
     secret \in {MAC_SECRET, "attacker"},
     t \in {clock, Shift(clock, 0 - MaxAge - 1), Shift(clock, FutureSlack + 1)}}
    \cup {NoEnvelope}

\* A handler that goes on whatever verifyMACClient answered.
MacRejectsNever(macVerification) == FALSE

\* if (!macVerification.valid) throw
MacRejects(macVerification) == ~macVerification.valid

\* response.json() resolves with a body and verifyMACClient answers.
ResponseArrives(body) ==
  LET macVerification == verifyMACClient(body, MAC_SECRET, MaxAge, now, subtle)
  IN  /\ phases' = Append(phases, IF macVerification.valid THEN Ran("envelope")
                                  ELSE Threw("envelope"))
      /\ IF MacRejects(macVerification)
         THEN ScanFails("mac")
         ELSE /\ macResponse' = body
              /\ scanData' = macVerification.data
              /\ pc' = "FETCH_COMMIT"
              /\ UNCHANGED <<scanning, imgHash, blind, request, proofVerdict, unblinded,
                             matchResult, matchedDb, outcome, failure>>

\* The route of this repository answers the form.
RouteResponds ==
  /\ pc = "AWAIT_SERVER"
  /\ \E nonce \in Nonces :
       ResponseArrives(AsMACResponse(
         POST_image(hashSeed, serverKey, FormGet(request, "blindedPoint"), nonce).body))
  /\ UNCHANGED <<mountPc, dbResult, dbVerified, securityStatus>>
  /\ UNCHANGED <<oprfVars, envVars, macVars, siteVars, labVars>>

\* Some other server, or the network, answers.
ServerResponds ==
  /\ pc = "AWAIT_SERVER"
  /\ \E body \in ScanResponses(hashSeed, serverKey, blind.blindedHex, now) :
       ResponseArrives(body)
  /\ UNCHANGED <<mountPc, dbResult, dbVerified, securityStatus>>
  /\ UNCHANGED <<oprfVars, envVars, macVars, siteVars, labVars>>

\* fetch("/api/scan/image") rejects.
FetchFails ==
  /\ pc = "AWAIT_SERVER"
  /\ ScanFails("network")
  /\ phases' = Append(phases, Threw("response"))
  /\ UNCHANGED <<mountPc, dbResult, dbVerified, securityStatus>>
  /\ UNCHANGED <<oprfVars, envVars, macVars, siteVars, labVars>>

\* /server_key_commitment.json arrives: unblindEvaluatedPoint, then localMatch.
CommitmentFetched ==
  /\ pc = "FETCH_COMMIT"
  /\ IF ~scanData.defined
     THEN /\ ScanFails("noData")
          /\ phases' = phases \o <<Ran("commitment"), Threw("unblind")>>
     ELSE LET token == unblindEvaluatedPoint(hashSeed, scanData.evaluatedPoint, blind.r,
                                             blind.blindedHex, scanData.proof, commitFile)
              checked == ProofChecked(scanData.proof, blind.blindedHex, commitFile)
          IN  /\ phases' = phases \o <<Ran("commitment")>> \o
                   (IF token.thrown
                    THEN IF token.why = "badPoint" THEN <<Threw("unblind")>>
                         ELSE IF token.why = "proofInvalid" THEN <<Threw("proof")>>
                         ELSE (IF checked THEN <<Ran("proof")>> ELSE <<>>)
                                \o <<Threw("unblind")>>
                    ELSE (IF checked THEN <<Ran("proof")>> ELSE <<>>)
                           \o <<Ran("unblind"), Ran("match")>>)
              /\ IF token.thrown
                 THEN ScanFails(token.why)
                 ELSE /\ proofVerdict' =
                           IF ProofChecked(scanData.proof, blind.blindedHex, commitFile)
                           THEN verifyOPRFProof(hashSeed, scanData.proof, blind.blindedHex,
                                                scanData.evaluatedPoint, commitFile)
                           ELSE NoVerdict
                      /\ unblinded' = token
                      /\ matchResult' = localMatch(token.token, bundledDb, DefaultThreshold)
                      /\ matchedDb' = bundledDb
                      /\ pc' = "ENCRYPT_STORE"
                      /\ UNCHANGED <<scanning, imgHash, blind, request, macResponse, scanData,
                                     outcome, failure>>
  /\ UNCHANGED <<mountPc, dbResult, dbVerified, securityStatus>>
  /\ UNCHANGED <<oprfVars, envVars, macVars, siteVars, labVars>>

\* encryptResult resolves (crypto.subtle exists in every session whose
\* database verified): the session key is fetched or made, the returned
\* EncryptedResult is dropped, and the result message replaces "Scanning...".
EncryptDone ==
  /\ pc = "ENCRYPT_STORE"
  /\ \E generated \in FreshKeys :
       LET k == getOrCreateKey(eKey, eSlot, generated)
       IN  eKey' = k.key /\ eSlot' = k.slot
  /\ phases' = Append(phases, Ran("encrypt"))
  /\ outcome' = IF matchResult.matched THEN "blocked" ELSE "safe"
  /\ failure' = "none"
  /\ scanning' = FALSE /\ pc' = "IDLE"
  /\ imgHash' = Undefined /\ blind' = NoBlind /\ request' = NoRequest
  /\ macResponse' = NoEnvelope
  /\ scanData' = UndefinedData /\ proofVerdict' = NoVerdict /\ unblinded' = NoToken
  /\ matchResult' = NoMatchYet /\ matchedDb' = <<>>
  /\ UNCHANGED <<mountPc, dbResult, dbVerified, securityStatus>>
  /\ UNCHANGED <<oprfVars, envVars, macVars, siteVars, dbVars, routeVars, matchVars,
                 ePc, eData, eBlob, eChanged, eOut, moreVars>>

Next ==
  \/ Tick \/ VerifyDatabase \/ StartScan
  \/ HashDone \/ HashFails
  \/ RouteResponds \/ ServerResponds \/ FetchFails
  \/ CommitmentFetched
  \/ EncryptDone

Spec == Init /\ [][Next]_vars

(***************************************************************************)
(* The chat page's text scan as a state machine: handleSendMessage from    *)
(* one await to the next (the inputs are disabled while a scan runs, so a  *)
(* text scan and an image scan do not overlap).                            *)
(***************************************************************************)
\* The bodies that can arrive for a text: an envelope of the server around a
\* status (stamped now, too long ago or too far ahead), one made without the
\* server's secret, or a body that is no envelope.
TextResponses(clock) ==
  {addMAC(TextData(status), secret, 1, t) :
     status \in {"safe", "warning", "blocked"},
     secret \in {MAC_SECRET, "attacker"},
     t \in {clock, Shift(clock, 0 - MaxAge - 1), Shift(clock, FutureSlack + 1)}}
    \cup {NoEnvelope}

InitChat ==
  /\ IdleOPRF /\ IdleMAC /\ IdleSite /\ IdleLab
  /\ now = SessionStart
  /\ subtle \in BOOLEAN
  /\ IdlePage

ChatFrame ==
  /\ UNCHANGED <<mountPc, dbResult, dbVerified, securityStatus>>
  /\ UNCHANGED <<oprfVars, envVars, macVars, siteVars, dbVars, routeVars, matchVars,
                 ePc, eData, eBlob, eChanged, eOut, moreVars>>

\* Enter or the send button with a non-empty input: the request goes out.
SendMessage ==
  /\ ~scanning
  /\ scanning' = TRUE /\ pc' = "TEXT_AWAIT"
  /\ outcome' = "none" /\ failure' = "none"
  /\ phases' = <<Ran("request")>>
  /\ UNCHANGED <<imgHash, blind, request, macResponse, scanData, proofVerdict,
                 unblinded, matchResult, matchedDb, eKey, eSlot>>
  /\ ChatFrame

\* verifyMACClient answers for the body of the text response.
TextArrives(body) ==
  LET macVerification == verifyMACClient(body, MAC_SECRET, MaxAge, now, subtle)
  IN  /\ phases' = Append(phases, IF macVerification.valid THEN Ran("envelope")
                                  ELSE Threw("envelope"))
      /\ IF MacRejects(macVerification)
         THEN ScanFails("mac")
         ELSE /\ macResponse' = body
              /\ scanData' = macVerification.data
              /\ pc' = "TEXT_ENCRYPT"
              /\ UNCHANGED <<scanning, imgHash, blind, request, proofVerdict,
                             unblinded, matchResult, matchedDb, outcome, failure>>

\* res.json() resolves with a body.
TextResponds ==
  /\ pc = "TEXT_AWAIT"
  /\ \E body \in TextResponses(now) : TextArrives(body)
  /\ UNCHANGED <<eKey, eSlot>>
  /\ ChatFrame

\* fetch("/api/scan") rejects, or the status is not ok.
TextFetchFails ==
  /\ pc = "TEXT_AWAIT"
  /\ ScanFails("network")
  /\ phases' = Append(phases, Threw("response"))
  /\ UNCHANGED <<eKey, eSlot>>
  /\ ChatFrame

\* encryptResult resolves, or rejects where crypto.subtle is missing; the
\* result or "Scan failed" replaces "Scanning...".
TextEncryptDone ==
  /\ pc = "TEXT_ENCRYPT"
  /\ IF ~scanData.defined
     THEN /\ ScanFails("noData")
          /\ phases' = Append(phases, Threw("status"))
          /\ UNCHANGED <<eKey, eSlot>>
     ELSE IF ~subtle
     THEN /\ ScanFails("encrypt")
          /\ phases' = Append(phases, Threw("encrypt"))
          /\ UNCHANGED <<eKey, eSlot>>
     ELSE /\ \E generated \in FreshKeys :
               LET k == getOrCreateKey(eKey, eSlot, generated)
               IN  eKey' = k.key /\ eSlot' = k.slot
          /\ phases' = Append(phases, Ran("encrypt"))
          /\ outcome' = scanData.status
          /\ failure' = "none"
          /\ scanning' = FALSE /\ pc' = "IDLE"
          /\ macResponse' = NoEnvelope /\ scanData' = UndefinedData
          /\ UNCHANGED <<imgHash, blind, request, proofVerdict, unblinded, matchResult,
                         matchedDb>>
  /\ ChatFrame

NextChat == Tick \/ SendMessage \/ TextResponds \/ TextFetchFails \/ TextEncryptDone

SpecChat == InitChat /\ [][NextChat]_vars

(***************************************************************************)
(* The page with both handlers, and every awaited operation settling: the  *)
(* promise a handler waits for is fulfilled or rejected at some time.      *)
(***************************************************************************)
Settles ==
  \/ HashDone \/ HashFails
  \/ RouteResponds \/ ServerResponds \/ FetchFails
  \/ CommitmentFetched
  \/ EncryptDone
  \/ TextResponds \/ TextFetchFails \/ TextEncryptDone

\* One SHA-256 and a clock that stands still: responses of every age still
\* arrive, and which hash function it is changes no path of the handlers.
InitLive == Init /\ hashSeed = 0

NextPage == VerifyDatabase \/ StartScan \/ SendMessage \/ Settles

SpecLive == InitLive /\ [][NextPage]_vars /\ WF_vars(Settles)

(***************************************************************************)
(* The database manifest as a state machine: a file is signed, the bytes   *)
(* presented later are the same or changed, verifyDatabaseIntegrity runs.  *)
(***************************************************************************)
\* The database files that get signed.
DbFiles ==
  {DatabaseFile(SERVER_OPRF_KEY, q) : q \in {<<0, 1>>, <<0>>, <<1, 2>>}}

\* now - timestamp of the manifests presented: around the limit of 30 days.
DbAges == {[days |-> d, ms |-> m] : d \in {0, MaxDbAgeDays - 1, MaxDbAgeDays, MaxDbAgeDays + 1},
                                    m \in {0 - 1, 0, 1}}

\* The timestamp that is `age` before the clock.
SignedAt(clock, age) == Shift(Time(clock.day - age.days, clock.ms), 0 - age.ms)

InitDB ==
  /\ IdleOPRF /\ IdleMAC /\ IdleSite /\ IdlePage
  /\ now \in {Time(MaxDbAgeDays + 1, 0), Time(MaxDbAgeDays + 1, 1)}
  /\ subtle \in BOOLEAN
  /\ dPc = "start" /\ dSigned = <<>> /\ dManifest = NoManifest /\ dAge = NoAge
  /\ dContent = <<>> /\ dChange = "none" /\ dResult = NoDbResult
  /\ IdleRoute /\ IdleMatch /\ IdleEnc /\ IdleMore

\* The versions a database is signed as.
DbVersions == {"1.0.0", "2.0.0"}

\* generateDatabaseSignature, of the module or of the script, run when the
\* clock was dAge behind now.
DSign ==
  /\ dPc = "start"
  /\ \E db \in DbFiles, age \in DbAges, key \in {SIGNING_KEY, "attacker"},
        version \in DbVersions, tool \in {"module", "script"} :
       /\ dSigned' = db
       /\ dAge' = age
       /\ dManifest' =
            IF tool = "module"
            THEN generateDatabaseSignature(db, version, key, SignedAt(now, age))
            ELSE generateDatabaseSignatureScript(db, version, key, SignedAt(now, age))
  /\ dPc' = "signed"
  /\ UNCHANGED <<dContent, dChange, dResult>>
  /\ UNCHANGED <<oprfVars, envVars, macVars, siteVars, pageVars, routeVars, matchVars, encVars, moreVars>>

\* The presented bytes are the signed ones.
DKeep ==
  /\ dPc = "signed"
  /\ dContent' = dSigned /\ dChange' = "none"
  /\ dPc' = "presented"
  /\ UNCHANGED <<dSigned, dManifest, dAge, dResult>>
  /\ UNCHANGED <<oprfVars, envVars, macVars, siteVars, pageVars, routeVars, matchVars, encVars, moreVars>>

\* Two entries change places.
DReorder ==
  /\ dPc = "signed"
  /\ \E i, j \in 1..Len(dSigned) :
       /\ i < j
       /\ dContent' = [dSigned EXCEPT ![i] = dSigned[j], ![j] = dSigned[i]]
  /\ dChange' = "reorder"
  /\ dPc' = "presented"
  /\ UNCHANGED <<dSigned, dManifest, dAge, dResult>>
  /\ UNCHANGED <<oprfVars, envVars, macVars, siteVars, pageVars, routeVars, matchVars, encVars, moreVars>>

\* An entry is added at the end.
DAdd ==
  /\ dPc = "signed"
  /\ \E p \in PHashes :
       dContent' = Append(dSigned, <<Len(dSigned) + 1, generateHashesToken(SERVER_OPRF_KEY, p)>>)
  /\ dChange' = "add"
  /\ dPc' = "presented"
  /\ UNCHANGED <<dSigned, dManifest, dAge, dResult>>
  /\ UNCHANGED <<oprfVars, envVars, macVars, siteVars, pageVars, routeVars, matchVars, encVars, moreVars>>

\* An entry is deleted.
DDelete ==
  /\ dPc = "signed"
  /\ \E i \in 1..Len(dSigned) :
       dContent' = SubSeq(dSigned, 1, i - 1) \o SubSeq(dSigned, i + 1, Len(dSigned))
  /\ dChange' = "delete"
  /\ dPc' = "presented"
  /\ UNCHANGED <<dSigned, dManifest, dAge, dResult>>
  /\ UNCHANGED <<oprfVars, envVars, macVars, siteVars, pageVars, routeVars, matchVars, encVars, moreVars>>

\* The token of an entry is replaced by another one.
DEdit ==
  /\ dPc = "signed"
  /\ \E i \in 1..Len(dSigned), p \in PHashes :
       /\ generateHashesToken(SERVER_OPRF_KEY, p) # dSigned[i][2]
       /\ dContent' = [dSigned EXCEPT ![i] = <<i, generateHashesToken(SERVER_OPRF_KEY, p)>>]
  /\ dChange' = "edit"
  /\ dPc' = "presented"
  /\ UNCHANGED <<dSigned, dManifest, dAge, dResult>>
  /\ UNCHANGED <<oprfVars, envVars, macVars, siteVars, pageVars, routeVars, matchVars, encVars, moreVars>>

DVerify ==
  /\ dPc = "presented"
  /\ dResult' = verifyDatabaseIntegrity(dContent, dManifest, SIGNING_KEY, now, subtle)
  /\ dPc' = "done"
  /\ UNCHANGED <<dSigned, dManifest, dAge, dContent, dChange>>
  /\ UNCHANGED <<oprfVars, envVars, macVars, siteVars, pageVars, routeVars, matchVars, encVars, moreVars>>

NextDB == DSign \/ DKeep \/ DReorder \/ DAdd \/ DDelete \/ DEdit \/ DVerify

SpecDB == InitDB /\ [][NextDB]_vars

(***************************************************************************)
(* The image route as a state machine: a form arrives, POST answers.       *)
(***************************************************************************)
\* What the blindedPoint field can hold: a point, nothing, text that is not
\* hex, the encoding of infinity.
RouteRequests == PointHexes \cup {Undefined, Malformed, InfinityHex}

InitRoute ==
  /\ oPc = "off" /\ hashSeed \in 0..(CURVE_ORDER - 1) /\ serverKey \in Scalars
  /\ oPhash = 0 /\ oR = 1 /\ oBlinded = Undefined /\ oUsedKey = 0 /\ oResp = NoResp
  /\ oVerdict = NoVerdict /\ oToken = NoToken
  /\ IdleEnv /\ IdleMAC /\ IdleSite /\ IdlePage /\ IdleDb
  /\ rPc = "idle" /\ rRequest = Undefined /\ rResponse = NoRouteResponse
  /\ IdleMatch /\ IdleEnc /\ IdleMore

RReceive ==
  /\ rPc = "idle"
  /\ rRequest' \in RouteRequests
  /\ rPc' = "received"
  /\ UNCHANGED rResponse
  /\ UNCHANGED <<oprfVars, envVars, macVars, siteVars, pageVars, dbVars, matchVars, encVars, moreVars>>

RPost ==
  /\ rPc = "received"
  /\ \E nonce \in Scalars :
       rResponse' = POST_image(hashSeed, serverKey, rRequest, nonce)
  /\ rPc' = "responded"
  /\ UNCHANGED rRequest
  /\ UNCHANGED <<oprfVars, envVars, macVars, siteVars, pageVars, dbVars, matchVars, encVars, moreVars>>

NextRoute == RReceive \/ RPost

SpecRoute == InitRoute /\ [][NextRoute]_vars

(***************************************************************************)
(* localMatch as a state machine: a token, a database and a threshold are  *)
(* given, localMatch runs.                                                 *)
(***************************************************************************)
\* The databases: up to MaxEntries entries, the file of an entry is its
\* number in the list.
RECURSIVE TokenLists(_)
TokenLists(n) ==
  IF n = 0 THEN {<<>>}
  ELSE TokenLists(n - 1)
         \cup {Append(q, h) : q \in {t \in TokenLists(n - 1) : Len(t) = n - 1},
                              h \in PointHexes}

MatchDatabases ==
  {[i \in 1..Len(q) |-> [file |-> i, phash |-> q[i]]] : q \in TokenLists(MaxEntries)}

\* Thresholds around the distances that tokens have.
MatchThresholds == {0, 1, DefaultThreshold, 12, 13}

InitMatch ==
  /\ IdleOPRF /\ IdleEnv /\ IdleMAC /\ IdleSite /\ IdlePage /\ IdleDb /\ IdleRoute
  /\ lPc = "start"
  /\ lToken \in PointHexes
  /\ lDb \in MatchDatabases
  /\ lThreshold \in MatchThresholds
  /\ lResult = NoMatchYet
  /\ IdleEnc /\ IdleMore

LMatch ==
  /\ lPc = "start"
  /\ lResult' = localMatch(lToken, lDb, lThreshold)
  /\ lPc' = "done"
  /\ UNCHANGED <<lToken, lDb, lThreshold>>
  /\ UNCHANGED <<oprfVars, envVars, macVars, siteVars, pageVars, dbVars, routeVars, encVars, moreVars>>

NextMatch == LMatch

SpecMatch == InitMatch /\ [][NextMatch]_vars

(***************************************************************************)
(* Result encryption as a state machine: a result is encrypted, the blob   *)
(* is kept or changed in one character, the page may reload, the blob is   *)
(* decrypted.                                                              *)
(***************************************************************************)
\* File names of one to three characters.
FileNames == {<<97>>, <<97, 98>>, <<97, 98, 99>>}

EncryptedValues ==
  {ScanRecord(f, r, Time(1, 0)) :
     f \in FileNames,
     r \in {NoMatch, [matched |-> TRUE, hammingDistance |-> 0],
            [matched |-> TRUE, hammingDistance |-> DefaultThreshold]}}

InitEnc ==
  /\ IdleOPRF /\ IdleEnv /\ IdleMAC /\ IdleSite /\ IdlePage
  /\ IdleDb /\ IdleRoute /\ IdleMatch /\ IdleMore
  /\ ePc = "start"
  /\ eKey = NoKey
  /\ eSlot \in {NoKey, CorruptKey} \cup KeyIds
  /\ eData = Undefined /\ eBlob = NoBlob /\ eChanged = "none" /\ eOut = NoDecrypt

EEncrypt ==
  /\ ePc = "start"
  /\ \E data \in EncryptedValues, iv \in Nonces, generated \in KeyIds :
       LET k == getOrCreateKey(eKey, eSlot, generated)
       IN  /\ eData' = data
           /\ eKey' = k.key /\ eSlot' = k.slot
           /\ eBlob' = encryptResult(data, k.key, iv, now)
  /\ ePc' = "encrypted"
  /\ UNCHANGED <<eChanged, eOut>>
  /\ UNCHANGED <<oprfVars, envVars, macVars, siteVars, pageVars, dbVars, routeVars,
                 matchVars, moreVars>>

\* A character of the ciphertext text is replaced: by one that gives other
\* bytes, by one outside the alphabet, or (in the last place) by one that
\* differs only in the bits that stand for nothing.
ETamperCiphertext ==
  /\ ePc = "encrypted" /\ eChanged = "none"
  /\ \/ eBlob' = [eBlob EXCEPT !.ciphertext.bytes.touched = TRUE]
     \/ eBlob' = [eBlob EXCEPT !.ciphertext.bad = TRUE]
     \/ /\ HasSlack(eBlob.ciphertext.bytes)
        /\ eBlob' = [eBlob EXCEPT !.ciphertext.slack = 1]
  /\ eChanged' = "ciphertext"
  /\ UNCHANGED <<ePc, eKey, eSlot, eData, eOut>>
  /\ UNCHANGED <<oprfVars, envVars, macVars, siteVars, pageVars, dbVars, routeVars,
                 matchVars, moreVars>>

\* A character of the iv text is replaced (12 bytes: every bit stands for
\* something).
ETamperIv ==
  /\ ePc = "encrypted" /\ eChanged = "none"
  /\ \/ \E iv \in (Nonces \cup {0}) \ {eBlob.iv.bytes.iv} :
          eBlob' = [eBlob EXCEPT !.iv.bytes.iv = iv]
     \/ eBlob' = [eBlob EXCEPT !.iv.bad = TRUE]
  /\ eChanged' = "iv"
  /\ UNCHANGED <<ePc, eKey, eSlot, eData, eOut>>
  /\ UNCHANGED <<oprfVars, envVars, macVars, siteVars, pageVars, dbVars, routeVars,
                 matchVars, moreVars>>

\* The page is loaded again in the same session: the module's key is gone,
\* the session slot is kept.
EReload ==
  /\ ePc = "encrypted" /\ eKey # NoKey
  /\ eKey' = NoKey
  /\ UNCHANGED <<ePc, eSlot, eData, eBlob, eChanged, eOut>>
  /\ UNCHANGED <<oprfVars, envVars, macVars, siteVars, pageVars, dbVars, routeVars,
                 matchVars, moreVars>>

EDecrypt ==
  /\ ePc = "encrypted"
  /\ \E generated \in KeyIds :
       LET k == getOrCreateKey(eKey, eSlot, generated)
       IN  /\ eKey' = k.key /\ eSlot' = k.slot
           /\ eOut' = decryptResult(eBlob, k.key)
  /\ ePc' = "done"
  /\ UNCHANGED <<eData, eBlob, eChanged>>
  /\ UNCHANGED <<oprfVars, envVars, macVars, siteVars, pageVars, dbVars, routeVars,
                 matchVars, moreVars>>

NextEnc == EEncrypt \/ ETamperCiphertext \/ ETamperIv \/ EReload \/ EDecrypt

SpecEnc == InitEnc /\ [][NextEnc]_vars

(***************************************************************************)
(* The stored results as a state machine: results are stored, other code   *)
(* of the page writes its own keys, an entry is damaged, the page reloads  *)
(* or the session ends, results are retrieved, everything is cleared.      *)
(***************************************************************************)
ResultIds == {"1", "2"}

OtherKeys == {<<"t", "h", "e", "m", "e">>, <<"r", "e", "s", "u", "l", "t", "s">>}

StoredValues == {ScanRecord(<<97>>, NoMatch, Time(1, 0))}

Called(op, id) == [op |-> op, id |-> id]

InitStore ==
  /\ IdleOPRF /\ IdleEnv /\ IdleMAC /\ IdleSite /\ IdlePage
  /\ IdleDb /\ IdleRoute /\ IdleMatch
  /\ ePc = "off" /\ eData = Undefined /\ eBlob = NoBlob /\ eChanged = "none"
  /\ eOut = NoDecrypt
  /\ eKey = NoKey
  /\ eSlot \in {NoKey, CorruptKey} \cup KeyIds
  /\ localStore = <<>> /\ sOp = NoCall /\ keysToRemove = <<>>
  /\ IdleText /\ IdleHash /\ IdleConc

StoreFrame ==
  UNCHANGED <<oprfVars, envVars, macVars, siteVars, pageVars, dbVars, routeVars,
              matchVars, ePc, eData, eBlob, eChanged, textVars, hashVars, concVars>>

SStore ==
  /\ \E id \in ResultIds, data \in StoredValues, generated \in FreshKeys :
       LET k == getOrCreateKey(eKey, eSlot, generated)
       IN  /\ eKey' = k.key /\ eSlot' = k.slot
           /\ localStore' = storeEncryptedResult(localStore, id, data, k.key, 1, now)
           /\ sOp' = Called("store", id)
  /\ eOut' = NoDecrypt
  /\ UNCHANGED keysToRemove
  /\ StoreFrame

\* Other code of the page keeps a key of its own.
SOtherWrite ==
  /\ \E key \in OtherKeys :
       /\ getItem(localStore, key) = NoItem
       /\ localStore' = setItem(localStore, key, StringText)
  /\ sOp' = Called("other", "")
  /\ eOut' = NoDecrypt
  /\ UNCHANGED <<eKey, eSlot, keysToRemove>>
  /\ StoreFrame

\* A stored entry is damaged: bytes of its ciphertext change, or the text is
\* no longer JSON.
SDamage ==
  /\ \E id \in ResultIds :
       LET stored == getItem(localStore, ResultKey(id))
       IN  /\ stored.kind = "object"
           /\ ~ParseBlob(stored).ciphertext.bytes.touched
           /\ \/ localStore' =
                   setItem(localStore, ResultKey(id),
                           StringifyBlob([ParseBlob(stored) EXCEPT
                                            !.ciphertext.bytes.touched = TRUE]))
              \/ localStore' = setItem(localStore, ResultKey(id), NotJson)
  /\ sOp' = Called("other", "")
  /\ eOut' = NoDecrypt
  /\ UNCHANGED <<eKey, eSlot, keysToRemove>>
  /\ StoreFrame

\* The page is loaded again in the same session.
SReload ==
  /\ eKey # NoKey
  /\ eKey' = NoKey
  /\ sOp' = Called("other", "")
  /\ eOut' = NoDecrypt
  /\ UNCHANGED <<eSlot, localStore, keysToRemove>>
  /\ StoreFrame

\* The session ends and another begins: sessionStorage is empty again,
\* localStorage is kept.
SNewSession ==
  /\ eSlot # NoKey
  /\ eKey' = NoKey /\ eSlot' = NoKey
  /\ sOp' = Called("other", "")
  /\ eOut' = NoDecrypt
  /\ UNCHANGED <<localStore, keysToRemove>>
  /\ StoreFrame

SRetrieve ==
  /\ \E id \in ResultIds, generated \in FreshKeys :
       LET k == IF RetrieveFinds(localStore, id)
                THEN getOrCreateKey(eKey, eSlot, generated)
                ELSE [key |-> eKey, slot |-> eSlot]
       IN  /\ eKey' = k.key /\ eSlot' = k.slot
           /\ eOut' = retrieveEncryptedResult(localStore, id, k.key)
           /\ sOp' = Called("retrieve", id)
  /\ UNCHANGED <<localStore, keysToRemove>>
  /\ StoreFrame

SClearAll ==
  /\ keysToRemove' = CollectKeys(localStore, 1)
  /\ localStore' = RemoveKeys(localStore, keysToRemove')
  /\ eKey' = clearKey.key /\ eSlot' = clearKey.slot
  /\ sOp' = Called("clear", "")
  /\ eOut' = NoDecrypt
  /\ StoreFrame

NextStore ==
  SStore \/ SOtherWrite \/ SDamage \/ SReload \/ SNewSession \/ SRetrieve \/ SClearAll

SpecStore == InitStore /\ [][NextStore]_vars

(***************************************************************************)
(* scanText as a state machine: a text is given, scanText runs.            *)
(***************************************************************************)
\* The pieces the texts are put together from.
TextChunks ==
  {KW_KILL, <<"K", "i", "L", "L">>, KW_HACK, <<"c", "r", "e", "d", "i", "t">>,
   <<"c", "a", "r", "d">>, <<" ">>, <<"s">>, <<"_">>, <<"!">>, <<"\n">>}

RECURSIVE Texts(_)
Texts(n) ==
  IF n = 0 THEN {<<>>}
  ELSE Texts(n - 1) \cup {t \o c : t \in Texts(n - 1), c \in TextChunks}

InitText ==
  /\ IdleOPRF /\ IdleEnv /\ IdleMAC /\ IdleSite /\ IdlePage
  /\ IdleDb /\ IdleRoute /\ IdleMatch /\ IdleEnc /\ IdleStore /\ IdleHash /\ IdleConc
  /\ tPc = "idle" /\ tInput = <<>> /\ tResult = NoScanResult

TextFrame ==
  UNCHANGED <<oprfVars, envVars, macVars, siteVars, pageVars, dbVars, routeVars,
              matchVars, encVars, storeVars, hashVars, concVars>>

TReceive ==
  /\ tPc = "idle"
  /\ tInput' \in Texts(MaxChunks)
  /\ tPc' = "received"
  /\ UNCHANGED tResult
  /\ TextFrame

TScan ==
  /\ tPc = "received"
  /\ tResult' = scanText(tInput, scannerConfig)
  /\ tPc' = "done"
  /\ UNCHANGED tInput
  /\ TextFrame

NextText == TReceive \/ TScan

SpecText == InitText /\ [][NextText]_vars

(***************************************************************************)
(* computePHashClient as a state machine: the DCT of an image is given,    *)
(* the hash is computed from it.                                           *)
(***************************************************************************)
\* The DCT blocks: every coefficient one of two values.
DctBlocks == [0..(BlockSide - 1) -> [0..(BlockSide - 1) -> {0, 1}]]

InitHash ==
  /\ IdleOPRF /\ IdleEnv /\ IdleMAC /\ IdleSite /\ IdlePage
  /\ IdleDb /\ IdleRoute /\ IdleMatch /\ IdleEnc /\ IdleStore /\ IdleText /\ IdleConc
  /\ hPc = "idle" /\ hBlock = <<>> /\ hResult = <<>>

HashFrame ==
  UNCHANGED <<oprfVars, envVars, macVars, siteVars, pageVars, dbVars, routeVars,
              matchVars, encVars, storeVars, textVars, concVars>>

HReceive ==
  /\ hPc = "idle"
  /\ hBlock' \in DctBlocks
  /\ hPc' = "transformed"
  /\ UNCHANGED hResult
  /\ HashFrame

HCompute ==
  /\ hPc = "transformed"
  /\ hResult' = computePHashClient(hBlock)
  /\ hPc' = "done"
  /\ UNCHANGED hBlock
  /\ HashFrame

NextHash == HReceive \/ HCompute

SpecHash == InitHash /\ [][NextHash]_vars

(***************************************************************************)
(* The image route under concurrent requests: a handler is suspended at    *)
(* `await req.formData()` and runs to its response when that resolves.     *)
(***************************************************************************)
MaxRequests == 2

RequestIds == 1..MaxRequests

\* What the blindedPoint fields of concurrent requests hold.
ConcurrentForms ==
  {PointToHex(G), PointToHex(Multiply(G, 2)), PointToHex(Multiply(G, CURVE_ORDER - 1)),
   Undefined, Malformed}

NoHandler == [pc |-> "idle", form |-> Undefined, response |-> NoRouteResponse]

\* A handler that reads the blinded point from a place all requests share.
SharedBlindedPoint(reqs, i) == reqs[1].form

\* const blindedPoint = formData.get("blindedPoint"): the handler's own form.
OwnBlindedPoint(reqs, i) == reqs[i].form

\* POST, from the resolved form to the response, with the module's memo.
POST_imageMemo(seed, k, memo, blindedPoint, nonce) ==
  IF ~Truthy(blindedPoint)
  THEN RouteResponse(400, <<"error">>, NoEvaluation, "No hash provided")
  ELSE IF ~IsPointHex(blindedPoint)
  THEN RouteResponse(500, <<"error">>, NoEvaluation, "Server error during scan")
  ELSE RouteResponse(200, <<"evaluatedPoint">>,
                     evaluateBlindedPointMemo(seed, k, memo, blindedPoint, nonce), "none")

InitServer ==
  /\ oPc = "off" /\ hashSeed \in {0, 1} /\ serverKey \in {2, 3}
  /\ oPhash = 0 /\ oR = 1 /\ oBlinded = Undefined /\ oUsedKey = 0 /\ oResp = NoResp
  /\ oVerdict = NoVerdict /\ oToken = NoToken
  /\ IdleEnv /\ IdleMAC /\ IdleSite /\ IdlePage /\ IdleDb /\ IdleRoute
  /\ IdleMatch /\ IdleEnc /\ IdleStore /\ IdleText /\ IdleHash
  /\ srvMemo = Undefined
  /\ srvReqs = [i \in RequestIds |-> NoHandler]
  /\ kmCalls = <<>> /\ kmCleared = {}
  /\ rpFor = "" /\ rpLog = <<>>

ServerFrame ==
  UNCHANGED <<oprfVars, envVars, macVars, siteVars, pageVars, dbVars, routeVars,
              matchVars, encVars, storeVars, textVars, hashVars, kmCalls, kmCleared,
              rpFor, rpLog>>

\* A request arrives and its handler waits for the form.
SrvReceive(i) ==
  /\ srvReqs[i].pc = "idle"
  /\ \E form \in ConcurrentForms :
       srvReqs' = [srvReqs EXCEPT ![i] = [pc |-> "parsing", form |-> form,
                                          response |-> NoRouteResponse]]
  /\ UNCHANGED srvMemo
  /\ ServerFrame

\* The form resolves; the rest of the handler has no await.
SrvRespond(i) ==
  /\ srvReqs[i].pc = "parsing"
  /\ LET blindedPoint == OwnBlindedPoint(srvReqs, i)
     IN  /\ \E nonce \in Nonces :
               srvReqs' = [srvReqs EXCEPT
                             ![i].pc = "responded",
                             ![i].response = POST_imageMemo(hashSeed, serverKey, srvMemo,
                                                            blindedPoint, nonce)]
         /\ srvMemo' = IF Truthy(blindedPoint) /\ IsPointHex(blindedPoint)
                       THEN getPublicKeyCommitmentMemo(srvMemo, serverKey)
                       ELSE srvMemo
  /\ ServerFrame

\* The response is sent and the connection takes the next request.
SrvClose(i) ==
  /\ srvReqs[i].pc = "responded"
  /\ srvReqs' = [srvReqs EXCEPT ![i] = NoHandler]
  /\ UNCHANGED srvMemo
  /\ ServerFrame

NextServer == \E i \in RequestIds : SrvReceive(i) \/ SrvRespond(i) \/ SrvClose(i)

SpecServer == InitServer /\ [][NextServer]_vars

(***************************************************************************)
(* resultEncryption.ts under concurrent calls.  An async function runs     *)
(* until its next await and goes on when the awaited operation settles;    *)
(* in between, other calls run.  Each call has its locals; keyManager.key  *)
(* (eKey), the session slot (eSlot) and localStorage are shared.           *)
(***************************************************************************)
MaxCalls == 3

CallIds == 1..MaxCalls

NoKmCall ==
  [op |-> "none", pc |-> "idle", id |-> "", key |-> NoKey, pending |-> NoKey,
   blob |-> NoBlob, out |-> NoDecrypt]

\* What every call encrypts.
CallData == ScanRecord(<<97>>, NoMatch, Time(1, 0))

\* The await of the crypto operation that follows getOrCreateKey.
CryptoPc(op) == IF op = "decrypt" THEN "decrypting" ELSE "encrypting"

\* getOrCreateKey() from its start to its first await, or to its return when
\* the key is in memory (lines 34-58).
EnterGetOrCreateKey(call) ==
  IF eKey # NoKey
  THEN [call EXCEPT !.key = eKey, !.pc = CryptoPc(call.op)]
  ELSE IF eSlot # NoKey
  THEN [call EXCEPT !.pending = eSlot, !.pc = "importing"]
  ELSE [call EXCEPT !.pc = "generating"]

\* encryptResult(data) is called.
KEncrypt(i) ==
  /\ kmCalls[i].pc = "idle"
  /\ kmCalls' = [kmCalls EXCEPT ![i] = EnterGetOrCreateKey([NoKmCall EXCEPT !.op = "encrypt"])]
  /\ UNCHANGED <<eKey, eSlot, localStore, kmCleared>>

\* decryptResult(encrypted) is called with what an earlier call returned.
KDecrypt(i) ==
  /\ kmCalls[i].pc = "idle"
  /\ \E j \in CallIds :
       /\ kmCalls[j].pc = "done" /\ kmCalls[j].op = "encrypt" /\ kmCalls[j].blob # NoBlob
       /\ kmCalls' = [kmCalls EXCEPT ![i] =
                        EnterGetOrCreateKey([NoKmCall EXCEPT !.op = "decrypt",
                                                             !.blob = kmCalls[j].blob])]
  /\ UNCHANGED <<eKey, eSlot, localStore, kmCleared>>

\* storeEncryptedResult(id, data) is called.
KStore(i) ==
  /\ kmCalls[i].pc = "idle"
  /\ \E id \in ResultIds :
       kmCalls' = [kmCalls EXCEPT ![i] =
                     EnterGetOrCreateKey([NoKmCall EXCEPT !.op = "store", !.id = id])]
  /\ UNCHANGED <<eKey, eSlot, localStore, kmCleared>>

\* importKey settles: this.key = the imported key; return this.key.  When it
\* rejects, the catch goes on to generateKey.
KImported(i) ==
  /\ kmCalls[i].pc = "importing"
  /\ IF kmCalls[i].pending # CorruptKey
     THEN /\ eKey' = kmCalls[i].pending
          /\ kmCalls' = [kmCalls EXCEPT ![i].key = kmCalls[i].pending,
                                        ![i].pc = CryptoPc(kmCalls[i].op)]
     ELSE /\ kmCalls' = [kmCalls EXCEPT ![i].pc = "generating"]
          /\ UNCHANGED eKey
  /\ UNCHANGED <<eSlot, localStore, kmCleared>>

\* generateKey settles: this.key = the new key; exportKey(this.key) starts.
\* The key a call generates is named after the call.
KGenerated(i) ==
  /\ kmCalls[i].pc = "generating"
  /\ eKey' = i
  /\ kmCalls' = [kmCalls EXCEPT ![i].pending = i, ![i].pc = "exporting"]
  /\ UNCHANGED <<eSlot, localStore, kmCleared>>

\* exportKey settles: the exported key goes to the slot; return this.key,
\* whatever it is by now.  With no key (null) crypto.subtle throws a
\* TypeError and the call fails.
KExported(i) ==
  /\ kmCalls[i].pc = "exporting"
  /\ eSlot' = kmCalls[i].pending
  /\ kmCalls' = IF eKey = NoKey
                THEN [kmCalls EXCEPT ![i].pc = "done",
                                     ![i].out = DecryptThrown("TypeError")]
                ELSE [kmCalls EXCEPT ![i].key = eKey, ![i].pc = CryptoPc(kmCalls[i].op)]
  /\ UNCHANGED <<eKey, localStore, kmCleared>>

\* crypto.subtle.encrypt settles: the EncryptedResult is returned, and
\* storeEncryptedResult writes it.
KEncrypted(i) ==
  /\ kmCalls[i].pc = "encrypting"
  /\ LET encrypted == encryptResult(CallData, kmCalls[i].key, i, Time(1, 0))
     IN  /\ kmCalls' = [kmCalls EXCEPT ![i].blob = encrypted, ![i].pc = "done"]
         /\ localStore' = IF kmCalls[i].op = "store"
                          THEN setItem(localStore, ResultKey(kmCalls[i].id),
                                       StringifyBlob(encrypted))
                          ELSE localStore
  /\ UNCHANGED <<eKey, eSlot, kmCleared>>

\* crypto.subtle.decrypt settles.
KDecrypted(i) ==
  /\ kmCalls[i].pc = "decrypting"
  /\ kmCalls' = [kmCalls EXCEPT ![i].out = decryptResult(kmCalls[i].blob, kmCalls[i].key),
                                ![i].pc = "done"]
  /\ UNCHANGED <<eKey, eSlot, localStore, kmCleared>>

\* clearAllResults(): it has no await.
KClearAll ==
  /\ localStore' = RemoveKeys(localStore, CollectKeys(localStore, 1))
  /\ eKey' = clearKey.key /\ eSlot' = clearKey.slot
  /\ kmCleared' = kmCleared \cup ({eKey, eSlot} \ {NoKey})
  /\ UNCHANGED kmCalls

KeysFrame ==
  UNCHANGED <<oprfVars, envVars, macVars, siteVars, pageVars, dbVars, routeVars,
              matchVars, ePc, eData, eBlob, eChanged, eOut, sOp, keysToRemove,
              textVars, hashVars, srvMemo, srvReqs, rpFor, rpLog>>

InitKeys ==
  /\ IdleOPRF /\ IdleEnv /\ IdleMAC /\ IdleSite /\ IdlePage
  /\ IdleDb /\ IdleRoute /\ IdleMatch /\ IdleEnc /\ IdleStore /\ IdleText /\ IdleHash
  /\ srvMemo = Undefined /\ srvReqs = <<>>
  /\ kmCalls = [i \in CallIds |-> NoKmCall]
  /\ kmCleared = {}
  /\ rpFor = "" /\ rpLog = <<>>

\* Calls of encryptResult and decryptResult in a session that starts with no
\* key (the slot is never filled while the memory is empty, so nothing is
\* imported).
NextKeys ==
  /\ \E i \in CallIds :
       \/ KEncrypt(i) \/ KDecrypt(i)
       \/ KGenerated(i) \/ KExported(i)
       \/ KEncrypted(i) \/ KDecrypted(i)
  /\ KeysFrame

SpecKeys == InitKeys /\ [][NextKeys]_vars

\* Calls of storeEncryptedResult with clearAllResults in between.
NextVault ==
  /\ \/ \E i \in CallIds :
          \/ KStore(i)
          \/ KImported(i) \/ KGenerated(i) \/ KExported(i)
          \/ KEncrypted(i)
     \/ KClearAll
  /\ KeysFrame

SpecVault == InitKeys /\ [][NextVault]_vars

(***************************************************************************)
(* Claims about the OPRF and its proof (under SpecOPRF).                   *)
(***************************************************************************)
(***************************************************************************)
(* verifyOPRFProof against a server that proves with the committed key for *)
(* whatever point it returns, or changes one field of such a proof.        *)
(***************************************************************************)
InitProof == InitOPRF /\ oPhash = 0

\* The scalar that takes P to Q (the group has prime order).
ScalarBetween(P, Q) == CHOOSE x \in Scalars : Multiply(P, x) = Q

\* generateOPRFProof(blindedHex, evaluatedHex, k, publicKey) for an evaluated
\* point of the server's choosing.
ProveFor(seed, k, blindedHex, Q, nonce) ==
  [evaluatedPoint |-> PointToHex(Q),
   proof |-> generateOPRFProof(seed, k, blindedHex, PointToHex(Q),
                               getPublicKeyCommitment(k), nonce)]

\* Another point than the one encoded, encoded.
OtherPointHex(h) == PointToHex((PointFromHex(h) % (CURVE_ORDER - 1)) + 1)

\* The proof with one field changed.
Forged(proof, field) ==
  LET p == proof[1]
  IN  <<CASE field = "challenge" -> [p EXCEPT !.challenge = (@ + 1) % CURVE_ORDER]
          [] field = "response" -> [p EXCEPT !.response = (@ + 1) % CURVE_ORDER]
          [] field = "R1" -> [p EXCEPT !.commitment[1] = OtherPointHex(@)]
          [] OTHER -> [p EXCEPT !.commitment[2] = OtherPointHex(@)]>>

OProveFor ==
  /\ oPc = "blinded"
  /\ \E Q \in Scalars, nonce \in Scalars :
       /\ oResp' = ProveFor(hashSeed, serverKey, oBlinded, Q, nonce)
       /\ oUsedKey' = ScalarBetween(PointFromHex(oBlinded), Q)
  /\ oPc' = "evaluated"
  /\ UNCHANGED <<hashSeed, serverKey, oPhash, oR, oBlinded, oVerdict, oToken>>
  /\ UNCHANGED <<envVars, macVars, siteVars, pageVars, labVars>>

OForge ==
  /\ oPc = "blinded"
  /\ \E Q \in Scalars, nonce \in Scalars, field \in {"challenge", "response", "R1", "R2"} :
       LET made == ProveFor(hashSeed, serverKey, oBlinded, Q, nonce)
       IN  /\ oResp' = [made EXCEPT !.proof = Forged(@, field)]
           /\ oUsedKey' = ScalarBetween(PointFromHex(oBlinded), Q)
  /\ oPc' = "evaluated"
  /\ UNCHANGED <<hashSeed, serverKey, oPhash, oR, oBlinded, oVerdict, oToken>>
  /\ UNCHANGED <<envVars, macVars, siteVars, pageVars, labVars>>

NextProof == OBlind \/ OProveFor \/ OForge \/ OVerify

SpecProof == InitProof /\ [][NextProof]_vars

(***************************************************************************)
(* verifyOPRFProof called with arguments that are not what the protocol    *)
(* sends: strings that are no points, a proof with parts missing, scalars  *)
(* that are no hex or out of range.                                        *)
(***************************************************************************)
\* A string that BigInt('0x' + ...) does not parse.
NotHex == Malformed

Damages ==
  {"none", "blinded", "evaluated", "publicKey", "noProof", "onePart", "R1", "R2",
   "challengeNotHex", "responseNotHex", "zeroChallenge", "zeroResponse",
   "bigChallenge", "bigResponse"}

\* The arguments of a call of verifyOPRFProof, one of them damaged.
Damaged(call, damage) ==
  LET p == call.proof[1]
  IN  CASE damage = "evaluated" -> [call EXCEPT !.evaluatedPoint = Malformed]
        [] damage = "publicKey" -> [call EXCEPT !.publicKey = Undefined]
        [] damage = "noProof" -> [call EXCEPT !.proof = NoProof]
        [] damage = "onePart" -> [call EXCEPT !.proof = <<[p EXCEPT !.commitment = <<@[1]>>]>>]
        [] damage = "R1" -> [call EXCEPT !.proof = <<[p EXCEPT !.commitment[1] = Malformed]>>]
        [] damage = "R2" -> [call EXCEPT !.proof = <<[p EXCEPT !.commitment[2] = Malformed]>>]
        [] damage = "challengeNotHex" -> [call EXCEPT !.proof = <<[p EXCEPT !.challenge = NotHex]>>]
        [] damage = "responseNotHex" -> [call EXCEPT !.proof = <<[p EXCEPT !.response = NotHex]>>]
        [] damage = "zeroChallenge" -> [call EXCEPT !.proof = <<[p EXCEPT !.challenge = 0]>>]
        [] damage = "zeroResponse" -> [call EXCEPT !.proof = <<[p EXCEPT !.response = 0]>>]
        [] damage = "bigChallenge" -> [call EXCEPT !.proof = <<[p EXCEPT !.challenge = @ + CURVE_ORDER]>>]
        [] damage = "bigResponse" -> [call EXCEPT !.proof = <<[p EXCEPT !.response = @ + CURVE_ORDER]>>]
        [] OTHER -> call

\* The server's honest answer reaches the verifier with one argument damaged.
OMalform ==
  /\ oPc = "blinded"
  /\ \E nonce \in Scalars, damage \in Damages :
       LET made == evaluateBlindedPoint(hashSeed, serverKey, oBlinded, nonce)
           call == [evaluatedPoint |-> made.evaluatedPoint, proof |-> made.proof,
                    publicKey |-> getPublicKeyCommitment(serverKey)]
       IN  /\ oResp' = Damaged(call, damage)
           /\ oBlinded' = IF damage = "blinded" THEN Malformed ELSE oBlinded
  /\ oUsedKey' = serverKey
  /\ oPc' = "evaluated"
  /\ UNCHANGED <<hashSeed, serverKey, oPhash, oR, oVerdict, oToken>>
  /\ UNCHANGED <<envVars, macVars, siteVars, pageVars, labVars>>

OVerifyCall ==
  /\ oPc = "evaluated"
  /\ oVerdict' = verifyOPRFProof(hashSeed, oResp.proof, oBlinded, oResp.evaluatedPoint,
                                 oResp.publicKey)
  /\ oPc' = "verified"
  /\ UNCHANGED <<hashSeed, serverKey, oPhash, oR, oBlinded, oUsedKey, oResp, oToken>>
  /\ UNCHANGED <<envVars, macVars, siteVars, pageVars, labVars>>

NextCall == OBlind \/ OMalform \/ OVerifyCall

SpecCall == InitProof /\ [][NextCall]_vars

HonestServer == oUsedKey = serverKey

\* C1: with the server's key k, unblinding the evaluation of a blinded pHash
\* gives the encoding of k*hashToCurve(p), whatever the blinding scalar r:
\* the token that generateHashes stores in the database for p.
C1_UnblindGivesDatabaseToken ==
  (oPc = "unblinded" /\ HonestServer)
    => oToken = Returned(generateHashesToken(serverKey, oPhash))

C1_Witness ==
  /\ oPc = "unblinded" /\ HonestServer
  /\ oR > 1 /\ serverKey > 1
  /\ ~oToken.thrown
  /\ oToken.token # oResp.evaluatedPoint

\* C4: every proof that generateOPRFProof makes with the committed key for
\* Q = k*P' is accepted by verifyOPRFProof, for every nonce and every
\* challenge value.
C4_HonestProofAccepted ==
  (oPc = "verified" /\ HonestServer) => oVerdict.valid

\* C4, what the code does: the honest proof is accepted exactly when the
\* challenge and the response are both non-zero modulo the group order.
C4_AcceptedIffNonZero ==
  (oPc = "verified" /\ HonestServer)
    => (oVerdict.valid <=> (ValidScalar(oResp.proof[1].challenge)
                            /\ ValidScalar(oResp.proof[1].response)))

\* C5 as stated: a proof made with k' # k for Q' = k'*P' is rejected against
\* K = k*G, and the rejection is the first equation (EqG).
C5_CheatRejectedByEqG ==
  (oPc = "verified" /\ ~HonestServer) => oVerdict = Invalid("EqG")

\* C5 amended: such a proof is always rejected; the rejection is the first
\* equation when challenge and response are non-zero modulo the group order,
\* and the verification error of the scalar range check otherwise.
C5_CheatRejected ==
  (oPc = "verified" /\ ~HonestServer)
    => oVerdict = Invalid(IF /\ ValidScalar(oResp.proof[1].challenge)
                             /\ ValidScalar(oResp.proof[1].response)
                          THEN "EqG" ELSE "error")

C5_Witness ==
  /\ oPc = "verified" /\ ~HonestServer
  /\ oVerdict = Invalid("EqG")

(***************************************************************************)
(* Claims about the response envelope (under SpecMAC).                     *)
(***************************************************************************)
\* Milliseconds since day 0, for the few days the envelope times span.
Millis(t) == t.day * DayMs + t.ms

\* C3: verifyMACClient answers valid: true only for an envelope whose mac
\* equals the HMAC recomputed over its data, nonce and timestamp.
C3_ClientValidOnlyIfMacMatches ==
  (mPc = "done" /\ mClient.valid)
    => mRecv.mac = generateHMAC(MessageToSign(mRecv.data, mRecv.nonce, mRecv.timestamp),
                                MAC_SECRET)

\* C3, what the code does: the comparison decides only when crypto.subtle exists.
C3_ClientValidOnlyIfMacMatchesOrNoSubtle ==
  (mPc = "done" /\ mClient.valid /\ subtle)
    => mRecv.mac = generateHMAC(MessageToSign(mRecv.data, mRecv.nonce, mRecv.timestamp),
                                MAC_SECRET)

\* C9: an envelope of addMAC with its data, nonce, timestamp or mac changed
\* to another value is rejected by verifyMAC and by verifyMACClient.
C9_ChangedEnvelopeRejected ==
  (mPc = "done" /\ mChanged # "none") => (~mServer.valid /\ ~mClient.valid)

\* C9, the half the code keeps: verifyMAC rejects every changed envelope, and
\* so does verifyMACClient where crypto.subtle exists.
C9_ChangedEnvelopeRejectedByServer ==
  (mPc = "done" /\ mChanged # "none") => (~mServer.valid /\ (subtle => ~mClient.valid))

\* C10: both verifiers reject an envelope as too old exactly when
\* now - timestamp > 300000 ms and as future exactly when
\* timestamp - now > 60000 ms; timestamp = now + 60000 passes the freshness
\* check and timestamp = now + 60001 does not.
C10_FreshnessWindow ==
  (mPc = "done" /\ mRecv.timestamp # NaN)
    => LET age == Millis(now) - Millis(mRecv.timestamp)
       IN  /\ (mServer.reason = "old") <=> (age > 300000)
           /\ (mClient.reason = "old") <=> (age > 300000)
           /\ (mServer.reason = "future") <=> (0 - age > 60000)
           /\ (mClient.reason = "future") <=> (0 - age > 60000)

C10_Witness ==
  /\ mPc = "done"
  /\ mRecv.timestamp # NaN
  /\ Millis(mRecv.timestamp) - Millis(now) = 60000
  /\ mServer.valid /\ mClient.valid

C10_WitnessRejected ==
  /\ mPc = "done"
  /\ mRecv.timestamp # NaN
  /\ Millis(mRecv.timestamp) - Millis(now) = 60001
  /\ mServer.reason = "future" /\ mClient.reason = "future"

(***************************************************************************)
(* Claims about an image scan on the chat page (under Spec).               *)
(***************************************************************************)
\* The scan has unblinded the response and matched the token.
Matched == pc = "ENCRYPT_STORE"

\* C2: the client unblinds and matches a response only after verifyOPRFProof
\* has returned valid for its blinded point, evaluated point and proof against
\* the published commitment; a response with no proof, or a scan with no
\* public key in the commitment, never reaches unblinding or matching.
C2_MatchedOnlyAfterValidProof ==
  Matched => (/\ proofVerdict.valid
              /\ scanData.proof # NoProof
              /\ Truthy(commitFile))

\* C2, what the code does: the proof decides only when the response carries one
\* and the commitment has a public key.
C2_MatchedOnlyAfterValidProofIfPresent ==
  (Matched /\ scanData.proof # NoProof /\ Truthy(commitFile)) => proofVerdict.valid

\* C6: a scan computes a pHash or sends a blinded point only if the database
\* verification of this session has succeeded; while it has failed or has not
\* finished, every scan attempt is refused.
C6_ScanOnlyAfterVerification ==
  /\ (pc # "IDLE" \/ imgHash # Undefined \/ blind # NoBlind)
       => (mountPc = "done" /\ dbResult.valid)
  /\ (~dbResult.valid /\ outcome # "none")
       => (outcome = "failed" /\ failure = "dbUnverified")

\* A manifest backdated by 31 days: the verification failed as expired and a
\* scan attempt was refused.
C6_Witness ==
  /\ mountPc = "done" /\ dbResult = DbInvalid("expired")
  /\ manifest.timestamp = Time(0, 0)
  /\ outcome = "failed" /\ failure = "dbUnverified"
  /\ pc = "IDLE"

C6_WitnessProceeds ==
  /\ dbResult.valid /\ pc = "AWAIT_SERVER" /\ blind # NoBlind

\* C7: the entries localMatch compares the token against are the parsed
\* content of the database bytes that passed the manifest verification.
C7_MatchedAgainstVerifiedDatabase ==
  Matched => (dbResult.valid /\ matchedDb = dbResult.data)

\* C7, what the code does: the entries are those of the file the scanner was
\* built with.
C7_MatchedAgainstBundledDatabase ==
  Matched => matchedDb = bundledDb

\* C8: the manifest is verified again before each scan, so no scan starts
\* while the served database and manifest do not verify.
C8_ScanStartsOnlyWithValidDatabase ==
  [][(pc = "IDLE" /\ pc' = "HASHING")
       => verifyDatabaseOnClient(TRUE, servedDb, manifest, now, subtle).valid]_vars

\* C8, what the code does: a scan starts if the verification at mount succeeded.
C8_ScanStartsIfVerifiedAtMount ==
  [][(pc = "IDLE" /\ pc' = "HASHING") => (dbVerified /\ dbResult.valid)]_vars

(***************************************************************************)
(* Claims about the database manifest (under SpecDB).                      *)
(***************************************************************************)
\* C11: with a manifest of generateDatabaseSignature over some bytes,
\* verifyDatabaseIntegrity answers valid: false for every content that
\* differs from those bytes: an entry reordered, added, deleted or changed.
C11_ChangedDatabaseRejected ==
  (dPc = "done" /\ dContent # dSigned) => ~dResult.valid

C11_Witness ==
  /\ dPc = "done" /\ dChange = "reorder" /\ dContent # dSigned
  /\ dResult = DbInvalid("hash")

\* now - timestamp > 30 days, for an age given as days and milliseconds.
OlderThan30Days(age) == age.days > 30 \/ (age.days = 30 /\ age.ms > 0)

\* The manifest is the one generateDatabaseSignature makes with the signing key.
WellSigned ==
  dManifest = generateDatabaseSignature(dSigned, "1.0.0", SIGNING_KEY, dManifest.timestamp)

\* C12: verifyDatabaseIntegrity rejects as expired exactly when
\* now - timestamp > 30 days; an otherwise valid manifest that is 30 days
\* less 1 ms old is accepted, one that is 30 days and 1 ms old is rejected.
C12_ExpiredExactlyAfter30Days ==
  dPc = "done"
    => /\ (dResult = DbInvalid("expired")) <=> OlderThan30Days(dAge)
       /\ (WellSigned /\ dChange = "none" /\ subtle)
            => (dResult.valid <=> ~OlderThan30Days(dAge))

C12_Witness ==
  /\ dPc = "done" /\ WellSigned /\ dChange = "none"
  /\ dAge = [days |-> 30, ms |-> 0 - 1]
  /\ dResult.valid

C12_WitnessExpired ==
  /\ dPc = "done" /\ WellSigned /\ dChange = "none"
  /\ dAge = [days |-> 30, ms |-> 1]
  /\ dResult = DbInvalid("expired")

(***************************************************************************)
(* Claims about POST /api/scan/image (under SpecRoute).                    *)
(***************************************************************************)
\* C14: for a well-formed blinded point P' the route answers with an envelope
\* { data, mac, nonce, timestamp } whose data is { evaluatedPoint, proof },
\* evaluatedPoint being k*P'.
C14_RespondsWithEnvelope ==
  (rPc = "responded" /\ IsPointHex(rRequest))
    => /\ rResponse.status = 200
       /\ rResponse.body.keys = <<"data", "mac", "nonce", "timestamp">>
       /\ rResponse.body.data.keys = <<"evaluatedPoint", "proof">>
       /\ rResponse.body.data.evaluatedPoint
            = PointToHex(Multiply(PointFromHex(rRequest), serverKey))
       /\ rResponse.body.data.proof # NoProof
       /\ rResponse.body.mac = ExpectedMAC(AsMACResponse(rResponse.body), MAC_SECRET)

\* C14, what the code does: the body is { evaluatedPoint: { evaluatedPoint,
\* proof } } with nothing around it.
C14_RespondsWithBareEvaluation ==
  (rPc = "responded" /\ IsPointHex(rRequest))
    => /\ rResponse.status = 200
       /\ rResponse.body.keys = <<"evaluatedPoint">>
       /\ rResponse.body.evaluatedPoint.evaluatedPoint
            = PointToHex(Multiply(PointFromHex(rRequest), serverKey))
       /\ rResponse.body.evaluatedPoint.proof # NoProof
       /\ AsMACResponse(rResponse.body) = NoEnvelope

\* C15: a blindedPoint that does not decode to a point other than infinity is
\* refused with status 400, and no evaluated point is returned.
C15_BadPointIs400 ==
  (rPc = "responded" /\ ~IsPointHex(rRequest))
    => /\ rResponse.status = 400
       /\ rResponse.body.evaluatedPoint = NoEvaluation

\* C15, what the code does: 400 only for a missing field, 500 for a field
\* that does not decode.
C15_BadPointIs500 ==
  (rPc = "responded" /\ ~IsPointHex(rRequest))
    => /\ rResponse.status = (IF Truthy(rRequest) THEN 500 ELSE 400)
       /\ rResponse.body.evaluatedPoint = NoEvaluation

\* C17: no response and no published file has the secret scalar k as a field:
\* a response holds the evaluated point k*P' and the proof's challenge,
\* response and commitment, or an error; the commitment file holds K = k*G.
C17_OnlyPublicFields ==
  rPc = "responded"
    => /\ rResponse.body.keys \in {<<"evaluatedPoint">>, <<"error">>}
       /\ rResponse.status = 200
            => /\ DOMAIN rResponse.body.evaluatedPoint = {"evaluatedPoint", "proof"}
               /\ rResponse.body.evaluatedPoint.evaluatedPoint
                    = PointToHex(Multiply(PointFromHex(rRequest), serverKey))
               /\ DOMAIN rResponse.body.evaluatedPoint.proof[1]
                    = {"challenge", "response", "commitment"}
       /\ DOMAIN KeyCommitmentFile(serverKey, now) = {"publicKey", "timestamp", "version"}
       /\ KeyCommitmentFile(serverKey, now).publicKey = PointToHex(Multiply(G, serverKey))

C17_Witness ==
  /\ rPc = "responded" /\ rResponse.status = 200 /\ serverKey > 1
  /\ rResponse.body.evaluatedPoint.proof[1].challenge # 0

(***************************************************************************)
(* Claims about a whole image scan (under Spec).                           *)
(***************************************************************************)
\* The commitment is published, the database verified, and the token of the
\* scanned image's pHash is listed in it.
HonestSetting ==
  /\ dbVerified /\ dbResult.valid
  /\ commitFile = getPublicKeyCommitment(serverKey)
  /\ \E i \in 1..Len(dbResult.data) :
       dbResult.data[i].phash = generateHashesToken(serverKey, imgHash)

\* The body in hand is one the route of this repository gives for the form.
RouteAnswered ==
  \E nonce \in Nonces :
    macResponse = AsMACResponse(
      POST_image(hashSeed, serverKey, FormGet(request, "blindedPoint"), nonce).body)

\* C13: with the repository's server, the published commitment and a verified
\* database that lists k*H(p), the scan of an image with pHash p goes on past
\* the response to unblinding and matching, and the match is a match at
\* Hamming distance 0.
C13_HonestScanMatches ==
  [][/\ (RouteResponds /\ HonestSetting) => pc' = "FETCH_COMMIT"
     /\ (pc = "FETCH_COMMIT" /\ RouteAnswered /\ HonestSetting)
          => (pc' = "FETCH_COMMIT"
              \/ (pc' = "ENCRYPT_STORE"
                  /\ matchResult' = [matched |-> TRUE, hammingDistance |-> 0]))]_vars

\* C13, what the code does: the answer of the repository's route never passes
\* verifyMACClient, and the scan ends as failed.
C13_RouteScanFails ==
  [][RouteResponds => (pc' = "IDLE" /\ outcome' = "failed" /\ failure' = "mac")]_vars

\* C16: the form the client posts holds the blinded point r*H(p) and nothing
\* else, neither the pHash nor r; and the blinded points that can be sent are
\* the same set for every pHash.
C16_OnlyBlindedPointSent ==
  /\ request # NoRequest
       => /\ request.keys = <<"blindedPoint">>
          /\ request.fields = <<PointToHex(Multiply(hashToCurve(imgHash), blind.r))>>
  /\ \A p, q \in PHashes :
       {blindPHash(p, r).blindedHex : r \in Scalars}
         = {blindPHash(q, r).blindedHex : r \in Scalars}

C16_Witness ==
  /\ pc = "AWAIT_SERVER" /\ request # NoRequest
  /\ imgHash = 1 /\ blind.r > 1
  /\ FormGet(request, "blindedPoint") # PointToHex(hashToCurve(imgHash))

(***************************************************************************)
(* Claims about localMatch (under SpecMatch).                              *)
(***************************************************************************)
\* The entries within the threshold, by the number of differing bits.
EntriesWithin ==
  {i \in 1..Len(lDb) :
     Cardinality({b \in 0..27 : BitAt(lToken, b) # BitAt(lDb[i].phash, b)}) <= lThreshold}

FirstWithin == CHOOSE i \in EntriesWithin : \A j \in EntriesWithin : i <= j

C19_ThresholdZeroIsEquality ==
  (lPc = "done" /\ lThreshold = 0)
    => (lResult.matched <=> \E i \in 1..Len(lDb) : lDb[i].phash = lToken)

\* An entry one bit away (the same x, the other prefix) is not a match.
C19_Witness ==
  /\ lPc = "done" /\ lThreshold = 0 /\ Len(lDb) > 0
  /\ ~lResult.matched
  /\ \E i \in 1..Len(lDb) : hammingDistance(lToken, lDb[i].phash) = 1

C19_WitnessMatch ==
  /\ lPc = "done" /\ lThreshold = 0 /\ lResult.matched
  /\ lDb[1].phash # lToken

(***************************************************************************)
(* Claims about result encryption (under SpecEnc).                         *)
(***************************************************************************)
\* C20: within a session decryptResult(encryptResult(x)) returns x, and a
\* blob with any character of its ciphertext or of its iv changed makes
\* decryptResult fail, with nothing returned.
C20_RoundTripAndTamper ==
  ePc = "done"
    => IF eChanged = "none" THEN eOut = DecryptReturned(eData)
       ELSE eOut.thrown

\* C20, what the code does: the round trip holds, and decryptResult fails
\* exactly when the changed text is not base64 or decodes to other bytes; a
\* change in the bits that stand for nothing still decrypts to x.
C20_RoundTripAndDecodedTamper ==
  ePc = "done"
    => LET sameBytes ==
             /\ ~eBlob.ciphertext.bad /\ ~eBlob.iv.bad
             /\ ~eBlob.ciphertext.bytes.touched
             /\ eBlob.iv.bytes.iv = eBlob.ciphertext.bytes.iv
       IN  IF sameBytes THEN eOut = DecryptReturned(eData) ELSE eOut.thrown

C20_WitnessSlack ==
  /\ ePc = "done" /\ eChanged = "ciphertext" /\ eBlob.ciphertext.slack # 0
  /\ eOut = DecryptReturned(eData)

(***************************************************************************)
(* Claims about the stored results (under Spec and SpecStore).             *)
(***************************************************************************)
\* A result is stored: some entry of localStorage has a key result_<id> and
\* holds an EncryptedResult.
ResultStored(store) ==
  \E i \in 1..Len(store) :
    /\ startsWith(store[i].key, RESULT_PREFIX)
    /\ store[i].value.kind = "object"

\* C21: every scan that completes successfully has stored the ciphertext of
\* its result under a key result_<id> when the page returns to idle.
C21_CompletedScanStored ==
  [][EncryptDone => ResultStored(localStore')]_vars

\* C21, what the code does: the page calls encryptResult and drops what it
\* returns; localStorage is never written, while the session key is made.
C21_PageNeverStores == localStore = <<>>

C21_WitnessCompleted ==
  /\ pc = "IDLE" /\ outcome \in {"safe", "blocked"} /\ eKey # NoKey
  /\ localStore = <<>>

\* C22: clearAllResults removes every key that begins with result_, leaves
\* every other key as it was, and clears the session key in memory and in
\* its session slot.
C22_ClearAllRemovesResultsOnly ==
  [][SClearAll =>
       /\ \A id \in ResultIds : getItem(localStore', ResultKey(id)) = NoItem
       /\ \A key \in OtherKeys : getItem(localStore', key) = getItem(localStore, key)
       /\ Len(localStore') = Cardinality({key \in OtherKeys :
                                            getItem(localStore, key) # NoItem})
       /\ eKey' = NoKey /\ eSlot' = NoKey]_vars

C22_Witness ==
  /\ sOp.op = "clear" /\ Len(keysToRemove) = 2
  /\ \A key \in OtherKeys : getItem(localStore, key) = StringText
  /\ eKey = NoKey /\ eSlot = NoKey

\* getOrCreateKey is called by this step: encryptResult and decryptResult
\* start with it.
KeyFetched ==
  \/ sOp'.op = "store"
  \/ sOp'.op = "retrieve" /\ RetrieveFinds(localStore, sOp'.id)

Importable(slot) == slot # NoKey /\ slot # CorruptKey

C23_WitnessNew ==
  /\ sOp.op = "store" /\ eKey = eSlot /\ eKey = 2
  /\ Len(localStore) > 1

\* C24: when decrypting a stored entry fails (the blob does not authenticate
\* or is not a blob), the entry has been removed from localStorage.
C24_FailedEntryDropped ==
  (sOp.op = "retrieve" /\ eOut.thrown /\ eOut.why # "Result not found")
    => getItem(localStore, ResultKey(sOp.id)) = NoItem

\* C24, what the code does: retrieveEncryptedResult never changes
\* localStorage; a failed entry stays and fails again.
C24_RetrieveKeepsStore ==
  [][SRetrieve => localStore' = localStore]_vars

C24_WitnessKept ==
  /\ sOp.op = "retrieve" /\ eOut.thrown /\ eOut.why = "OperationError"
  /\ getItem(localStore, ResultKey(sOp.id)).kind = "object"

(***************************************************************************)
(* Claims about scanText (under SpecText).                                 *)
(***************************************************************************)
\* The keyword stands in the text as a word, in any case: a stretch of the
\* text spells it, with no word character right before or right after.
OccursAsWord(keyword, text) ==
  \E p \in 1..Len(text) : \E q \in p..Len(text) :
    /\ q - p + 1 = Len(keyword)
    /\ \A i \in 1..Len(keyword) :
         text[p + i - 1] = keyword[i] \/ Canonicalize(keyword[i]) = text[p + i - 1]
    /\ p = 1 \/ ~IsWordChar(text[p - 1])
    /\ q = Len(text) \/ ~IsWordChar(text[q + 1])

AnyOccurs(keywords, text) ==
  \E k \in 1..Len(keywords) : OccursAsWord(keywords[k], text)

\* C25: scanText answers blocked if a blocked keyword stands in the text
\* (any case, at word boundaries), else warning if a warning keyword does,
\* else safe; a text with keywords of both lists is blocked, and an empty or
\* whitespace-only text is safe.
C25_SeverityByPriority ==
  tPc = "done" =>
    /\ tResult.severity =
         IF AnyOccurs(scannerConfig.blockedKeywords, tInput) THEN "blocked"
         ELSE IF AnyOccurs(scannerConfig.warningKeywords, tInput) THEN "warning"
         ELSE "safe"
    /\ (\A i \in 1..Len(tInput) : IsWhiteSpace(tInput[i])) => tResult.severity = "safe"

C25_WitnessBoth ==
  /\ tPc = "done" /\ tResult.severity = "blocked"
  /\ tInput = KW_HACK \o <<" ">> \o <<"K", "i", "L", "L">>

C25_WitnessInsideWord ==
  /\ tPc = "done" /\ tResult.severity = "safe"
  /\ tInput = <<"s">> \o KW_KILL

C25_WitnessWarning ==
  /\ tPc = "done" /\ tResult.severity = "warning" /\ tResult.matchedKeyword = KW_HACK

(***************************************************************************)
(* Claims about the requests of a scan (under Spec; the text scan under    *)
(* SpecChat).                                                              *)
(***************************************************************************)
\* How often the current (or last) scan ran the step.
TimesRan(name) == Cardinality({i \in 1..Len(phases) : phases[i].name = name})

\* The scan is over and failed, and nothing of the response is in use.
EndedInFailure ==
  /\ pc = "IDLE" /\ ~scanning /\ outcome = "failed"
  /\ unblinded = NoToken /\ matchResult = NoMatchYet /\ scanData = UndefinedData

C26_WitnessProof ==
  /\ failure = "proofInvalid" /\ TimesRan("request") = 1
  /\ phases[Len(phases)] = Threw("proof")

C26_WitnessText ==
  /\ failure = "mac" /\ phases = <<Ran("request"), Threw("envelope")>>

(***************************************************************************)
(* Claims about the MAC input (under SpecMAC).                             *)
(***************************************************************************)
\* Two payloads have the same fields with the same values, in whatever order.
SameContents(a, b) ==
  /\ a.defined /\ b.defined
  /\ {a.keys[i] : i \in 1..Len(a.keys)} = {b.keys[i] : i \in 1..Len(b.keys)}
  /\ Len(a.keys) = Len(b.keys)
  /\ \A i \in 1..Len(a.keys) : FieldString(a, a.keys[i]) = FieldString(b, a.keys[i])

\* The envelope presented is within the freshness window.
Fresh(response) ==
  ~TooOld(now, response.timestamp, MaxAge) /\ ~InFuture(now, response.timestamp)

\* C27: the MAC covers the payload with its keys sorted, so payloads with the
\* same contents give the same MAC input whatever their key order, and an
\* envelope whose data object is rebuilt in another key order still verifies.
C27_KeyOrderIrrelevant ==
  (/\ mPc = "done" /\ Fresh(mRecv)
   /\ mRecv = [mSent EXCEPT !.data = mRecv.data]
   /\ SameContents(mRecv.data, mSent.data))
    => /\ MessageToSign(mRecv.data, mRecv.nonce, mRecv.timestamp)
            = MessageToSign(mSent.data, mSent.nonce, mSent.timestamp)
       /\ mServer.valid /\ mClient.valid

\* C27, what the code does: the MAC covers JSON.stringify(data), which writes
\* the keys in insertion order; the same contents in another key order are
\* another MAC input, and both verifiers reject the envelope.
C27_KeyOrderCovered ==
  /\ \A a, b \in MacPayloads :
       (SameContents(a, b) /\ a.keys # b.keys)
         => MessageToSign(a, 1, now) # MessageToSign(b, 1, now)
  /\ (/\ mPc = "done" /\ subtle
      /\ mRecv = [mSent EXCEPT !.data = mRecv.data]
      /\ SameContents(mRecv.data, mSent.data) /\ mRecv.data.keys # mSent.data.keys)
       => (~mServer.valid /\ ~mClient.valid)

C27_WitnessReordered ==
  /\ mPc = "done" /\ subtle /\ Fresh(mRecv)
  /\ mSent.data.keys = <<"evaluatedPoint", "proof">>
  /\ mRecv = [mSent EXCEPT !.data.keys = <<"proof", "evaluatedPoint">>]
  /\ mClient = MacInvalid("mac") /\ mServer = MacInvalid("mac")

(***************************************************************************)
(* Claims about the order of the steps of an image scan (under Spec).      *)
(***************************************************************************)
ScanPhases ==
  <<"pHash", "blind", "request", "envelope", "proof", "unblind", "match", "encrypt">>

\* The steps of the scan that are among the eight, in the order they ran.
PhasesRun ==
  SelectSeq(phases, LAMBDA e : \E i \in 1..Len(ScanPhases) : e.name = ScanPhases[i])

NamesOf(log) == [i \in 1..Len(log) |-> log[i].name]

\* Only the last step of the scan can have failed.
NothingAfterFailure == \A i \in 1..(Len(phases) - 1) : phases[i].ok

\* C28: the steps of an image scan run in the order pHash, blind, request,
\* envelope verification, proof verification, unblind, match, encrypt, each
\* after the one before it has finished, and none after one that failed.
C28_PhasesInOrder ==
  /\ NamesOf(PhasesRun) = SubSeq(ScanPhases, 1, Len(PhasesRun))
  /\ NothingAfterFailure

\* C28, what the code does: the same order, except that the proof
\* verification is left out when the response has no proof or the commitment
\* no public key.
C28_PhasesInOrderProofOptional ==
  LET others == SelectSeq(NamesOf(PhasesRun), LAMBDA n : n # "proof")
      expected == SelectSeq(ScanPhases, LAMBDA n : n # "proof")
  IN  /\ others = SubSeq(expected, 1, Len(others))
      /\ \A i \in 1..Len(PhasesRun) :
           PhasesRun[i].name = "proof" => (i = 5 /\ PhasesRun[4].name = "envelope")
      /\ NothingAfterFailure

C28_WitnessAllEight ==
  /\ pc = "IDLE" /\ outcome = "blocked"
  /\ NamesOf(PhasesRun) = ScanPhases

C28_WitnessNoProof ==
  /\ pc = "IDLE" /\ outcome \in {"safe", "blocked"}
  /\ NamesOf(PhasesRun) = SelectSeq(ScanPhases, LAMBDA n : n # "proof")

(***************************************************************************)
(* Claims about computePHashClient (under SpecHash).                       *)
(***************************************************************************)
\* The value of a hex digit, and of the bit at a place (from the left, 1 the
\* top bit) of a hex text.
DigitValue(c) == (CHOOSE d \in 1..16 : HexDigits[d] = c) - 1

HexBit(text, place) ==
  (DigitValue(text[((place - 1) \div 4) + 1]) \div (2 ^ (3 - ((place - 1) % 4)))) % 2

\* The coefficient at row-major place k of the block (k from 1, (0,0) left
\* out).
Coefficient(block, k) == block[k \div BlockSide][k % BlockSide]

\* m is the median of the coefficients: at most half of them are below it
\* and at most half above.
IsMedian(block, m) ==
  LET places == 1..(BlockSide * BlockSide - 1)
      half == (BlockSide * BlockSide - 1) \div 2
  IN  /\ \E k \in places : Coefficient(block, k) = m
      /\ Cardinality({k \in places : Coefficient(block, k) < m}) <= half
      /\ Cardinality({k \in places : Coefficient(block, k) > m}) <= half

\* C29: computePHashClient returns exactly 16 (here HashHexLength) lowercase
\* hex characters; the top bit of the value is 0, and the bit after it that
\* stands for the k-th coefficient in row-major order without (0,0) is 1
\* exactly where that coefficient is strictly greater than the median.
C29_HashBitsAboveMedian ==
  hPc = "done" =>
    /\ Len(hResult) = HashHexLength
    /\ \A i \in 1..Len(hResult) : \E d \in 1..16 : hResult[i] = HexDigits[d]
    /\ HexBit(hResult, 1) = 0
    /\ \A k \in 1..(BlockSide * BlockSide - 1) :
         \A m \in {0, 1} :
           IsMedian(hBlock, m) =>
             (HexBit(hResult, k + 1) = 1 <=> Coefficient(hBlock, k) > m)

\* Seven coefficients above the median 0, among them the first and the last,
\* and a DC coefficient that does not count.
C29_Witness ==
  /\ hPc = "done"
  /\ hBlock[0][0] = 1
  /\ hBlock[0][1] = 1 /\ hBlock[BlockSide - 1][BlockSide - 1] = 1
  /\ Cardinality({k \in 1..(BlockSide * BlockSide - 1) : Coefficient(hBlock, k) = 1}) = 7
  /\ hResult[1] = "4" /\ HexBit(hResult, 4 * HashHexLength) = 1

\* More than half of the coefficients are 1: the median is 1 and no bit is
\* set.
C29_WitnessTies ==
  /\ hPc = "done"
  /\ Cardinality({k \in 1..(BlockSide * BlockSide - 1) : Coefficient(hBlock, k) = 1}) = 8
  /\ hResult = <<"0", "0", "0", "0">>

(***************************************************************************)
(* Claims about the order of verifyOPRFProof's checks (under SpecProof).   *)
(***************************************************************************)
\* The three checks on the received proof, in the arithmetic of the group
\* (scalars taken modulo the order, zero included).
ReceivedProof == oResp.proof[1]

ChallengeMatches ==
  ReceivedProof.challenge
    = ChallengeHash(hashSeed, PointToHex(G), getPublicKeyCommitment(serverKey),
                    oBlinded, oResp.evaluatedPoint,
                    ReceivedProof.commitment[1], ReceivedProof.commitment[2])

EqGHolds ==
  (G * ReceivedProof.response) % CURVE_ORDER
    = (PointFromHex(ReceivedProof.commitment[1])
         + ((serverKey * G) % CURVE_ORDER) * ReceivedProof.challenge) % CURVE_ORDER

EqPHolds ==
  (PointFromHex(oBlinded) * ReceivedProof.response) % CURVE_ORDER
    = (PointFromHex(ReceivedProof.commitment[2])
         + PointFromHex(oResp.evaluatedPoint) * ReceivedProof.challenge) % CURVE_ORDER

\* The proof is one that generateOPRFProof makes with the committed key for
\* the returned point.
MadeWithCommittedKey ==
  \E nonce \in Scalars :
    oResp.proof = generateOPRFProof(hashSeed, serverKey, oBlinded, oResp.evaluatedPoint,
                                    getPublicKeyCommitment(serverKey), nonce)

WrongEvaluation ==
  PointFromHex(oResp.evaluatedPoint) # (PointFromHex(oBlinded) * serverKey) % CURVE_ORDER

ZeroScalar == ReceivedProof.challenge = 0 \/ ReceivedProof.response = 0

\* C30 as stated: the verdict is the first check that fails, in the order
\* challenge, first equation, second equation, and valid only if all three
\* pass; a proof made with the committed k for Q # k*P' fails at the second
\* equation.
C30_FirstFailingCheck ==
  oPc = "verified" =>
    /\ oVerdict = (IF ~ChallengeMatches THEN Invalid("challenge")
                   ELSE IF ~EqGHolds THEN Invalid("EqG")
                   ELSE IF ~EqPHolds THEN Invalid("EqP")
                   ELSE Valid)
    /\ (MadeWithCommittedKey /\ WrongEvaluation) => oVerdict = Invalid("EqP")

\* C30 amended: the order is challenge, scalar range (a challenge or a
\* response that is 0 modulo the order is a verification error), first
\* equation, second equation; valid only if all pass; a proof made with the
\* committed k for Q # k*P' is always rejected, at the second equation when
\* challenge and response are non-zero and by the verification error
\* otherwise.
C30_FirstFailingCheckOrRangeError ==
  oPc = "verified" =>
    /\ oVerdict = (IF ~ChallengeMatches THEN Invalid("challenge")
                   ELSE IF ZeroScalar THEN Invalid("error")
                   ELSE IF ~EqGHolds THEN Invalid("EqG")
                   ELSE IF ~EqPHolds THEN Invalid("EqP")
                   ELSE Valid)
    /\ (MadeWithCommittedKey /\ WrongEvaluation)
         => oVerdict = Invalid(IF ZeroScalar THEN "error" ELSE "EqP")

\* A proof made with the committed key for a wrong point, rejected at the
\* second equation.
C30_Witness ==
  /\ oPc = "verified"
  /\ MadeWithCommittedKey /\ WrongEvaluation
  /\ ChallengeMatches /\ EqGHolds /\ ~EqPHolds
  /\ oVerdict = Invalid("EqP")

\* Both equations fail and the first is the one reported.
C30_WitnessFirstOfTwo ==
  /\ oPc = "verified"
  /\ ChallengeMatches /\ ~ZeroScalar /\ ~EqGHolds /\ ~EqPHolds
  /\ oVerdict = Invalid("EqG")

\* A wrong point whose proof has challenge 0: the second equation holds and
\* the proof is rejected by the range check alone.
C30_WitnessZeroChallenge ==
  /\ oPc = "verified"
  /\ MadeWithCommittedKey /\ WrongEvaluation
  /\ ReceivedProof.challenge = 0 /\ EqGHolds /\ EqPHolds
  /\ oVerdict = Invalid("error")

(***************************************************************************)
(* Claims about the order of verifyDatabaseIntegrity's checks (SpecDB).    *)
(***************************************************************************)
\* The three checks on the presented bytes and manifest, each on its own.
ContentHashDiffers == dContent # dSigned

ManifestSignatureWrong ==
  dManifest.signature
    # [hmac |-> SIGNING_KEY,
       over |-> <<dManifest.hash, dManifest.timestamp, dManifest.version>>]

\* C31: verifyDatabaseIntegrity checks the content hash first, then the
\* signature, then the 30-day age, and reports the first failing check: a
\* database whose hash does not match is reported as a hash mismatch even
\* when the manifest is also expired.
C31_HashThenSignatureThenAge ==
  (dPc = "done" /\ subtle)
    => dResult = (IF ContentHashDiffers THEN DbInvalid("hash")
                  ELSE IF ManifestSignatureWrong THEN DbInvalid("signature")
                  ELSE IF OlderThan30Days(dAge) THEN DbInvalid("expired")
                  ELSE DbValid(<<>>))

\* C31, what the code does: the age is checked first, then the hash, then
\* the signature.
C31_AgeThenHashThenSignature ==
  (dPc = "done" /\ subtle)
    => dResult = (IF OlderThan30Days(dAge) THEN DbInvalid("expired")
                  ELSE IF ContentHashDiffers THEN DbInvalid("hash")
                  ELSE IF ManifestSignatureWrong THEN DbInvalid("signature")
                  ELSE DbValid(<<>>))

\* A changed database under an expired manifest is reported as expired.
C31_WitnessChangedAndExpired ==
  /\ dPc = "done" /\ subtle
  /\ ContentHashDiffers /\ OlderThan30Days(dAge)
  /\ dResult = DbInvalid("expired")

\* A changed database under a manifest of another key is a hash mismatch.
C31_WitnessChangedAndForged ==
  /\ dPc = "done" /\ subtle
  /\ ContentHashDiffers /\ ManifestSignatureWrong /\ ~OlderThan30Days(dAge)
  /\ dResult = DbInvalid("hash")

(***************************************************************************)
(* Claims about a failed envelope verification on the page (Spec; the text *)
(* half also under SpecChat).                                              *)
(***************************************************************************)
\* now - timestamp in milliseconds, for times a few minutes apart.
AgeMs(clock, timestamp) == (clock.day - timestamp.day) * DayMs + clock.ms - timestamp.ms

\* The envelope is stale, from the future, or its mac is not the HMAC of its
\* data, nonce and timestamp under the shared secret (compared where
\* crypto.subtle exists); a body without the envelope fields has no mac.
EnvelopeStale(body) == body # NoEnvelope /\ AgeMs(now, body.timestamp) > 5 * 60 * 1000

EnvelopeFromFuture(body) == body # NoEnvelope /\ AgeMs(now, body.timestamp) < 0 - 60000

EnvelopeMacWrong(body) ==
  body.mac # [hmac |-> MAC_SECRET,
              over |-> <<JSONstringify(body.data), body.nonce, body.timestamp>>]

EnvelopeFails(body) ==
  EnvelopeStale(body) \/ EnvelopeFromFuture(body) \/ (subtle /\ EnvelopeMacWrong(body))

Last(seq) == seq[Len(seq)]

\* The scan is over and failed: "Scan failed" is shown, nothing of the
\* response is held, no verdict, token, match or status came of it, and the
\* key manager was not touched.
ScanAbortedNow ==
  /\ pc' = "IDLE" /\ ~scanning'
  /\ outcome' = "failed" /\ failure' # "none"
  /\ macResponse' = NoEnvelope /\ scanData' = UndefinedData
  /\ proofVerdict' = NoVerdict /\ unblinded' = NoToken /\ matchResult' = NoMatchYet
  /\ Last(phases') \in {Threw("envelope"), Threw("response")}
  /\ eKey' = eKey /\ eSlot' = eSlot

\* C32: when envelope verification fails (stale, future or MAC mismatch)
\* for a text or image response, the scan aborts: the payload is not used
\* for proof verification, unblinding, matching, status display or result
\* encryption, and the user is shown a failure message.  Said of the step
\* that takes the response: either the handler goes on with a response
\* whose envelope does not fail, or the scan is aborted in that step.
C32_FailedEnvelopeAborts ==
  [][(pc \in {"AWAIT_SERVER", "TEXT_AWAIT"} /\ pc' # pc)
       => IF pc' \in {"FETCH_COMMIT", "TEXT_ENCRYPT"}
          THEN ~EnvelopeFails(macResponse')
          ELSE ScanAbortedNow]_vars

\* A scan that failed at the envelope and went no further.
C32_Witness ==
  /\ pc = "IDLE" /\ outcome = "failed" /\ failure = "mac"
  /\ phases = <<Ran("pHash"), Ran("blind"), Ran("request"), Threw("envelope")>>

\* The same for a text scan.
C32_WitnessText ==
  /\ pc = "IDLE" /\ outcome = "failed" /\ failure = "mac"
  /\ phases = <<Ran("request"), Threw("envelope")>>

(***************************************************************************)
(* Claims about the two envelope verifiers side by side (SpecMAC).         *)
(***************************************************************************)
\* The received envelope is inside the freshness window.
RecvFresh ==
  /\ mRecv.timestamp # NaN
  /\ AgeMs(now, mRecv.timestamp) <= 5 * 60 * 1000
  /\ AgeMs(now, mRecv.timestamp) >= 0 - 60000

\* C33: an envelope produced by addMAC is accepted, within the freshness
\* window and with the same secret, by both verifyMAC and verifyMACClient,
\* and both return data equal to the payload; the two verifiers give the
\* same verdict on every envelope.
C33_VerifiersAgree ==
  mPc = "done" =>
    /\ (mChanged = "none" /\ RecvFresh)
         => /\ mServer.valid /\ mServer.data = mSent.data
            /\ mClient.valid /\ mClient.data = mSent.data
    /\ mServer.valid = mClient.valid

\* C33, what the code does: the envelope of addMAC is accepted by both, and
\* the verdicts are the same where crypto.subtle exists.
C33_VerifiersAgreeWithSubtle ==
  mPc = "done" =>
    /\ (mChanged = "none" /\ RecvFresh)
         => /\ mServer.valid /\ mServer.data = mSent.data
            /\ mClient.valid /\ mClient.data = mSent.data
    /\ subtle => mServer = mClient

\* Without crypto.subtle the client accepts what the server rejects.
C33_WitnessDisagree ==
  /\ mPc = "done" /\ ~subtle /\ mChanged = "mac" /\ RecvFresh
  /\ ~mServer.valid /\ mClient.valid

\* The untouched envelope at the far end of the window, accepted by both.
C33_WitnessBothAccept ==
  /\ mPc = "done" /\ subtle /\ mChanged = "none"
  /\ AgeMs(now, mRecv.timestamp) = 5 * 60 * 1000
  /\ mServer.valid /\ mClient.valid /\ mClient.data = mSent.data

(***************************************************************************)
(* Claims about signing and verifying the database (SpecDB).               *)
(***************************************************************************)
\* now - timestamp <= 30 days.
AtMost30DaysOld(age) == age.days < 30 \/ (age.days = 30 /\ age.ms <= 0)

\* The key the manifest was signed with.
SignedWith(key) == dManifest.signature.hmac = key

\* C34: a manifest produced by generateDatabaseSignature (the module or the
\* script) for given bytes, version and signing key is accepted by
\* verifyDatabaseIntegrity against the same bytes and key whenever it is at
\* most 30 days old, and the module and the script produce the same hash
\* and signature for the same inputs and timestamp.  (Acceptance is stated
\* where crypto.subtle exists.)
C34_OwnManifestAccepted ==
  /\ (dPc = "done" /\ subtle /\ dChange = "none" /\ SignedWith(SIGNING_KEY)
        /\ AtMost30DaysOld(dAge))
       => dResult.valid
  /\ dPc # "start" =>
       \A key \in {SIGNING_KEY, "attacker"} :
         LET module == generateDatabaseSignature(dSigned, dManifest.version, key,
                                                 dManifest.timestamp)
             script == generateDatabaseSignatureScript(dSigned, dManifest.version, key,
                                                       dManifest.timestamp)
         IN  /\ module.hash = script.hash /\ module.signature = script.signature
             /\ SignedWith(key) => dManifest = module

\* A manifest of exactly 30 days, of version 2.0.0, accepted.
C34_Witness ==
  /\ dPc = "done" /\ subtle /\ dChange = "none" /\ SignedWith(SIGNING_KEY)
  /\ dAge = [days |-> 30, ms |-> 0]
  /\ dManifest.version = "2.0.0"
  /\ dResult.valid

(***************************************************************************)
(* Claims about the server under concurrent requests (SpecServer).         *)
(***************************************************************************)
\* The response to request i carries k times the request's own point and a
\* proof whose challenge is over that point and whose second equation holds
\* for it.
AnsweredForOwnPoint(i) ==
  LET h == srvReqs[i]
      P == PointFromHex(h.form)
      e == h.response.body.evaluatedPoint
      Q == PointFromHex(e.evaluatedPoint)
      p == e.proof[1]
      K == PointToHex((G * serverKey) % CURVE_ORDER)
  IN  /\ h.response.status = 200
      /\ Q = (P * serverKey) % CURVE_ORDER
      /\ p.challenge = ChallengeHash(hashSeed, PointToHex(G), K, h.form,
                                     e.evaluatedPoint, p.commitment[1], p.commitment[2])
      /\ (P * p.response) % CURVE_ORDER
           = (PointFromHex(p.commitment[2]) + Q * p.challenge) % CURVE_ORDER

ServerKeepsRequestsApart ==
  /\ \A i \in RequestIds :
       (srvReqs[i].pc = "responded" /\ IsPointHex(srvReqs[i].form))
         => AnsweredForOwnPoint(i)
  /\ srvMemo \in {Undefined, PointToHex((G * serverKey) % CURVE_ORDER)}

\* C35: the server keeps no per-request state: under any interleaving of
\* concurrent requests every response's evaluatedPoint is k times that
\* request's own blinded point and its proof is for that same point, and the
\* memoized commitment K equals k*G and never changes once computed.
C35_RequestsIndependent ==
  /\ []ServerKeepsRequestsApart
  /\ [][Truthy(srvMemo) => srvMemo' = srvMemo]_vars

\* Two requests for different points handled together, both answered for
\* their own point, with the commitment computed once.
C35_Witness ==
  /\ srvReqs[1].pc = "responded" /\ srvReqs[2].pc = "responded"
  /\ srvReqs[1].form = PointToHex(G)
  /\ srvReqs[2].form = PointToHex(Multiply(G, 2))
  /\ srvReqs[1].response.body.evaluatedPoint.evaluatedPoint
       # srvReqs[2].response.body.evaluatedPoint.evaluatedPoint
  /\ Truthy(srvMemo)

(***************************************************************************)
(* Claims about concurrent calls into resultEncryption.ts (SpecKeys).      *)
(***************************************************************************)
\* No call is between two of its awaits.
Quiescent == \A i \in CallIds : kmCalls[i].pc \in {"idle", "done"}

\* The key a ciphertext was made under.
MadeUnder(blob) == blob.ciphertext.bytes.aead

\* C36: under any interleaving of concurrent encryptResult and decryptResult
\* calls at their await points, starting with no session key, all calls use
\* one and the same session key, so every ciphertext produced in the session
\* can be decrypted with the key that is left in memory and in the session
\* slot.
C36_OneSessionKey ==
  /\ \A i, j \in CallIds :
       (kmCalls[i].key # NoKey /\ kmCalls[j].key # NoKey)
         => kmCalls[i].key = kmCalls[j].key
  /\ Quiescent =>
       \A i \in CallIds :
         (kmCalls[i].op = "encrypt" /\ kmCalls[i].pc = "done")
           => (MadeUnder(kmCalls[i].blob) = eKey /\ eSlot = eKey)

\* Two calls generated a key each; the first ciphertext is under a key that
\* is neither in memory nor in the slot.
C36_WitnessLostKey ==
  /\ Quiescent
  /\ kmCalls[1].op = "encrypt" /\ kmCalls[1].pc = "done"
  /\ MadeUnder(kmCalls[1].blob) = 1
  /\ eKey = 2 /\ eSlot = 2

\* Memory and slot are left with different keys.
C36_WitnessSplit ==
  /\ Quiescent /\ eKey # NoKey /\ eSlot # NoKey /\ eKey # eSlot

\* A decryptResult of a ciphertext made in the session fails.
C36_WitnessDecryptFails ==
  \E i \in CallIds :
    /\ kmCalls[i].op = "decrypt" /\ kmCalls[i].pc = "done"
    /\ kmCalls[i].out = DecryptThrown("OperationError")

(***************************************************************************)
(* Claims about clearAllResults during a store (SpecVault).                *)
(***************************************************************************)
\* The result_ entries of the durable store and the keys they are under.
ResultEntries ==
  {i \in 1..Len(localStore) :
     /\ Len(localStore[i].key) = Len(ResultKey("1"))
     /\ \E id \in ResultIds : localStore[i].key = ResultKey(id)}

EntryKey(i) == MadeUnder(ParseBlob(localStore[i].value))

\* C40: if clearAllResults runs while a storeEncryptedResult call is
\* suspended inside encryption, then after both have finished no result_
\* entry encrypted under the cleared key is present in the durable store.
C40_NoEntryUnderClearedKey ==
  Quiescent => \A i \in ResultEntries : EntryKey(i) \notin kmCleared

\* The store was cleared while call 1 waited for crypto.subtle.encrypt with
\* key 1; the call then wrote its entry, which nothing can decrypt.
C40_WitnessEntryUnderClearedKey ==
  /\ Quiescent
  /\ kmCalls[1].op = "store" /\ kmCalls[1].pc = "done" /\ kmCalls[1].key = 1
  /\ 1 \in kmCleared
  /\ eKey = NoKey /\ eSlot = NoKey
  /\ \E i \in ResultEntries : EntryKey(i) = 1

(***************************************************************************)
(* Claims about verifyOPRFProof on arguments of any shape (SpecCall).      *)
(***************************************************************************)
NoPoint(h) == ~IsPointHex(h)

\* What the claim lists: a point hex that is none, a commitment without two
\* parts, a challenge or response that is no hex, a scalar that is 0 or not
\* below the group order.  (A missing proof is one more of the kind.)
CallMalformed ==
  \/ NoPoint(oBlinded) \/ NoPoint(oResp.evaluatedPoint) \/ NoPoint(oResp.publicKey)
  \/ oResp.proof = NoProof
  \/ /\ oResp.proof # NoProof
     /\ LET p == oResp.proof[1]
        IN  \/ Len(p.commitment) < 2
            \/ \E i \in 1..Len(p.commitment) : NoPoint(p.commitment[i])
            \/ p.challenge = NotHex \/ p.response = NotHex
            \/ p.challenge \notin Scalars \/ p.response \notin Scalars

\* The function returned (an object with valid and reason), it did not throw.
ReturnedVerdict(v) == DOMAIN v = {"valid", "reason"}

\* C37: verifyOPRFProof never throws: for malformed point hex, a commitment
\* string without two parts, a challenge or response that is not hex, or
\* scalars that are 0 or not below the group order, it returns valid: false
\* with a reason.
C37_NeverThrows ==
  oPc = "verified" =>
    /\ ReturnedVerdict(oVerdict)
    /\ CallMalformed => /\ oVerdict.valid = FALSE
                        /\ oVerdict.reason \in {"error", "challenge"}

\* A call whose argument threw inside the try block and came back as a
\* verification error.
C37_Witness ==
  /\ oPc = "verified"
  /\ CallMalformed
  /\ oVerdict = Invalid("error")

\* The response is 0: the challenge matches and G.multiply(0n) throws.
C37_WitnessZeroResponse ==
  /\ oPc = "verified"
  /\ oResp.proof # NoProof /\ IsPointHex(oBlinded) /\ IsPointHex(oResp.publicKey)
  /\ IsPointHex(oResp.evaluatedPoint)
  /\ oResp.proof[1].response = 0 /\ oResp.proof[1].challenge \in Scalars
  /\ Len(oResp.proof[1].commitment) = 2
  /\ oVerdict = Invalid("error")

\* An undamaged call is accepted.
C37_WitnessAccepted ==
  /\ oPc = "verified" /\ ~CallMalformed /\ oVerdict = Valid

(***************************************************************************)
(* Claims about an envelope presented more than once (SpecReplay).         *)
(***************************************************************************)
\* The envelope is inside the freshness window at the time of a verification.
InWindowAt(clock) ==
  /\ AgeMs(clock, mSent.timestamp) <= 5 * 60 * 1000
  /\ AgeMs(clock, mSent.timestamp) >= 0 - 60000

\* Every verification inside the window accepted the envelope, whatever was
\* verified before and whatever request it answered; outside it was refused.
ReplaysAccepted ==
  \A i \in 1..Len(rpLog) :
    IF InWindowAt(rpLog[i].at)
    THEN rpLog[i].verdict = MacValid(mSent.data)
    ELSE ~rpLog[i].verdict.valid

\* C38: envelope verification keeps no record of nonces and is not bound to
\* the request: it leaves all state unchanged, so a valid envelope is accepted
\* every time it is presented within the freshness window, including as the
\* response to a different request than the one it was produced for.
C38_ReplayAccepted ==
  []ReplaysAccepted
    /\ [][Len(rpLog') > Len(rpLog)
            => /\ mSent' = mSent /\ now' = now /\ subtle' = subtle /\ rpFor' = rpFor
               /\ UNCHANGED <<oprfVars, siteVars, pageVars, dbVars, routeVars, matchVars,
                              encVars, storeVars, textVars, hashVars>>]_vars

\* The same envelope accepted three times, at three times of the clock, the
\* last time as the response to a request it was not made for.
C38_Witness ==
  /\ Len(rpLog) = 3
  /\ \A i \in 1..3 : rpLog[i].verdict = MacValid(mSent.data)
  /\ rpLog[1].request = rpFor /\ rpLog[3].request # rpFor
  /\ rpLog[1].at # rpLog[2].at /\ rpLog[2].at # rpLog[3].at
  /\ subtle

\* Past the window the same envelope is refused.
C38_WitnessExpired ==
  /\ Len(rpLog) = 2
  /\ rpLog[1].verdict.valid /\ rpLog[2].verdict = MacInvalid("old")

(***************************************************************************)
(* Claims about the end of every scan (SpecLive).                          *)
(***************************************************************************)
\* The system message of the scan: "none" is the 'Scanning...' placeholder.
ResultMessages == {"safe", "warning", "blocked"}

ErrorMessages == {"failed"}

PlaceholderShown == outcome = "none"

\* A step that ends a scan: the flag goes down.
ScanEnds == scanning /\ ~scanning'

\* The handler ran from its start to its finally without an await (the
\* database is not verified): flag up and down, placeholder put and replaced.
ScanRefused == ~scanning /\ ~scanning' /\ failure' = "dbUnverified"

\* C39: after every text or image scan, whether it succeeds or fails at any
\* step, the scanning flag eventually returns to false and the 'Scanning...'
\* placeholder has been replaced by exactly one result or error message,
\* provided every awaited operation settles.
C39_EveryScanEnds ==
  /\ scanning ~> (~scanning /\ outcome \in ResultMessages \cup ErrorMessages)
  /\ [](scanning => PlaceholderShown)
  /\ [][ScanEnds => /\ PlaceholderShown
                    /\ outcome' \in ResultMessages \cup ErrorMessages
                    /\ (outcome' \in ErrorMessages) = (failure' # "none")]_vars
  /\ [][outcome' # outcome
         => \/ scanning' /\ ~scanning /\ outcome' = "none"
            \/ ScanEnds
            \/ ScanRefused /\ outcome' \in ErrorMessages]_vars

\* A text scan that failed at the envelope, over: flag down, error message.
C39_Witness ==
  /\ ~scanning /\ outcome = "failed" /\ failure = "mac"
  /\ Len(phases) > 0 /\ Last(phases) = Threw("envelope")

\* An image scan that ran to its end: flag down, result message.
C39_WitnessResult ==
  /\ ~scanning /\ outcome \in ResultMessages /\ failure = "none"
  /\ Len(phases) > 0 /\ Last(phases) = Ran("encrypt")

====
